---- MODULE Spec2Model ----
(***************************************************************************)
(* A model of the secure overlay of OpenDHT (src/src/securedht.cpp): the   *)
(* certificate directory, the receive filter of get/listen, putSigned,     *)
(* putEncrypted and the store/edit policies of secured value types.        *)
(*                                                                         *)
(* Keys, hashes, blobs and values are abstracted as follows.               *)
(*  - a key pair is a number of KeyIds; NoKey is the empty key;            *)
(*  - an InfoHash is a number; PkId(k) is the id of public key k and       *)
(*    NodeId(k) the DHT node id derived from it, all distinct;             *)
(*  - a certificate is a record [pk, ser]; its DER blob is the record      *)
(*    itself and NoCert is a null pointer, an empty certificate or a blob  *)
(*    that does not parse;                                                 *)
(*  - a signature is the record [by, over] of the signing key and the      *)
(*    signed bytes; a cypher is the record [to, body] of the key it was    *)
(*    encrypted to and the plaintext.                                      *)
(***************************************************************************)
EXTENDS Integers, Sequences, FiniteSets, TLC

\* ------------------------------------------------------------------ bounds
MaxBatchLen == 2
MaxBatches == 2
MaxSeq == 2
MaxInstances == 3
MaxCommonBits == 0

KeyIds == {1, 2}
Serials == {1, 2}
ValueIds == {1, 2}
Datas == {1, 2}

\* ------------------------------------------------------- keys and hashes
\* crypto.h: PublicKey() {} -- the empty key; its id is the zero InfoHash.
NoKey == 0

\* PublicKey::getId(): a digest of the key, injective on the keys modelled.
PkId(k) == 2 * k

\* The DHT node id the constructor derives: InfoHash::get("node:" + id).
NodeId(k) == 2 * k + 1

Hashes == {0} \cup {PkId(k) : k \in KeyIds} \cup {NodeId(k) : k \in KeyIds}

\* --------------------------------------------------------- certificates
NoCert == [pk |-> NoKey, ser |-> 0]
Certs == [pk : KeyIds, ser : Serials]
CertBlobs == Certs \cup {NoCert}

\* Certificate::getPublicKey().getId()
CertId(c) == PkId(c.pk)

\* ---------------------------------------------------------------- values
NoSig == [by |-> NoKey, over |-> <<>>]
NoCypher == [to |-> NoKey, body |-> <<>>]

\* Value {id}: a fresh value that holds an id and nothing else.
NewValue(id) ==
    [id |-> id, type |-> 0, seq |-> 0, signed |-> FALSE, encrypted |-> FALSE,
     hasRecip |-> FALSE, owner |-> NoKey, recipient |-> 0, data |-> 0,
     signature |-> NoSig, cypher |-> NoCypher]

\* Value::getToSign(): the authenticated bytes (id, type, flags, owner id,
\* recipient, data).
getToSign(v) ==
    <<v.id, v.type, <<v.signed, v.encrypted, v.hasRecip>>, PkId(v.owner),
      v.recipient, v.data>>

\* Value::getToEncrypt(): getToSign plus the signature, everything that
\* unpackBody needs to rebuild the signed value.
getToEncrypt(v) ==
    [type |-> v.type, seq |-> v.seq, signed |-> v.signed,
     encrypted |-> v.encrypted, hasRecip |-> v.hasRecip, owner |-> v.owner,
     recipient |-> v.recipient, data |-> v.data, signature |-> v.signature]

\* Bytes that Value::unpackBody cannot parse.
GarbageBody == [garbage |-> TRUE]

\* Value ret {id}; ret.unpackBody(body)
unpackBody(id, body) ==
    [id |-> id, type |-> body.type, seq |-> body.seq, signed |-> body.signed,
     encrypted |-> body.encrypted, hasRecip |-> body.hasRecip,
     owner |-> body.owner, recipient |-> body.recipient, data |-> body.data,
     signature |-> body.signature, cypher |-> NoCypher]

\* Value::setRecipient(h)
setRecipient(v, h) == [v EXCEPT !.recipient = h, !.hasRecip = TRUE]

\* Value::setCypher(c)
setCypher(v, c) == [v EXCEPT !.cypher = c, !.encrypted = TRUE]

\* PrivateKey::sign(data)
PrivateKeySign(k, data) == [by |-> k, over |-> data]

\* PublicKey::checkSignature(data, signature)
checkSignature(pk, data, sig) ==
    pk # NoKey /\ sig = [by |-> pk, over |-> data]

\* PublicKey::encrypt(data)
PublicKeyEncrypt(pk, data) == [to |-> pk, body |-> data]

\* PrivateKey::decrypt(cypher): the plaintext, or a DecryptError.
PrivateKeyDecrypt(k, cypher) ==
    IF k # NoKey /\ cypher.to = k
    THEN [ok |-> TRUE, body |-> cypher.body]
    ELSE [ok |-> FALSE, body |-> GarbageBody]

\* ---------------------------------------------- sign, encrypt, decrypt
\* SecureDht::getId(): the id of this node's public key, the zero hash
\* without a private key.
getIdOf(key) == IF key # NoKey THEN PkId(key) ELSE 0

\* sign writing the signature before the owner and the flags are set.
signBeforeOwner(key, v) ==
    IF v.encrypted
    THEN [st |-> "throw", val |-> v]
    ELSE IF key = NoKey
    THEN [st |-> "fault", val |-> v]
    ELSE [st |-> "ok",
          val |-> [v EXCEPT !.owner = key, !.signed = TRUE,
                            !.encrypted = FALSE,
                            !.signature =
                                PrivateKeySign(key, getToSign(v))]]

\* SecureDht::sign(v) on a node whose private key is key. st is "ok", or
\* "throw" when it throws, or "fault" on a node without a private key:
\* key_->getPublicKey() reads through a null pointer, which stops the
\* process. val is the value as sign leaves it.
sign(key, v) ==
    IF v.encrypted
    THEN [st |-> "throw", val |-> v]
    ELSE IF key = NoKey
    THEN [st |-> "fault", val |-> v]
    ELSE LET v1 == [v EXCEPT !.owner = key, !.signed = TRUE,
                             !.encrypted = FALSE]
         IN  [st |-> "ok",
              val |-> [v1 EXCEPT
                         !.signature = PrivateKeySign(key, getToSign(v1))]]

\* encrypt writing the recipient's DHT node id instead of its key id.
encryptNodeId(key, v, to) ==
    IF v.encrypted
    THEN [st |-> "throw", val |-> v, nv |-> v]
    ELSE LET s == sign(key, setRecipient(v, NodeId(to)))
         IN  [st |-> s.st, val |-> s.val,
              nv |-> setCypher(NewValue(v.id),
                               PublicKeyEncrypt(to, getToEncrypt(s.val)))]

\* encrypt building the cypher from v as it was before sign(v).
encryptBeforeSign(key, v, to) ==
    IF v.encrypted
    THEN [st |-> "throw", val |-> v, nv |-> v]
    ELSE LET r == setRecipient(v, PkId(to))
             s == sign(key, r)
         IN  [st |-> s.st, val |-> s.val,
              nv |-> setCypher(NewValue(v.id),
                               PublicKeyEncrypt(to, getToEncrypt(r)))]

\* SecureDht::encrypt(v, to): st as for sign; val is v as encrypt leaves
\* it (recipient set, signed) and nv the value returned.
encrypt(key, v, to) ==
    IF v.encrypted
    THEN [st |-> "throw", val |-> v, nv |-> v]
    ELSE LET s == sign(key, setRecipient(v, PkId(to)))
         IN  [st |-> s.st, val |-> s.val,
              nv |-> setCypher(NewValue(v.id),
                               PublicKeyEncrypt(to, getToEncrypt(s.val)))]

\* SecureDht::decrypt(v) on a node whose private key is key. st is "ok",
\* or "throw" when it throws (v not encrypted, a DecryptError, or bytes
\* that do not parse), or "fault" on a node without a private key:
\* key_->decrypt(v.cypher) reads through a null pointer, which stops the
\* process. ok is st = "ok" and val the value returned.
decrypt(key, v) ==
    IF ~v.encrypted
    THEN [st |-> "throw", ok |-> FALSE, val |-> v]
    ELSE IF key = NoKey
    THEN [st |-> "fault", ok |-> FALSE, val |-> v]
    ELSE LET d == PrivateKeyDecrypt(key, v.cypher)
         IN  IF d.ok /\ d.body # GarbageBody
             THEN [st |-> "ok", ok |-> TRUE,
                   val |-> unpackBody(v.id, d.body)]
             ELSE [st |-> "throw", ok |-> FALSE, val |-> v]

\* ------------------------------------------------------ receive filter
\* A Value::Filter: none given, or Value::IdFilter(id).
NoFilter == [kind |-> "none", id |-> 0]
IdFilter(id) == [kind |-> "id", id |-> id]
Filters == {NoFilter} \cup {IdFilter(i) : i \in ValueIds}

\* not filter or filter(v)
PassFilter(f, v) == f.kind = "none" \/ v.id = f.id

\* The loop body without the signature check of a decrypted value.
FilterValueNoInnerCheck(key, f, v) ==
    IF v.encrypted
    THEN IF key = NoKey
         THEN <<>>
         ELSE LET d == decrypt(key, v)
              IN  IF d.ok
                     /\ d.val.recipient = getIdOf(key)
                     /\ PassFilter(f, d.val)
                  THEN <<d.val>>
                  ELSE <<>>
    ELSE IF v.signed
    THEN IF checkSignature(v.owner, getToSign(v), v.signature)
            /\ PassFilter(f, v)
         THEN <<v>>
         ELSE <<>>
    ELSE IF PassFilter(f, v) THEN <<v>> ELSE <<>>

\* The loop body without the test of the decrypted value's recipient.
FilterValueNoRecipientTest(key, f, v) ==
    IF v.encrypted
    THEN IF key = NoKey
         THEN <<>>
         ELSE LET d == decrypt(key, v)
              IN  IF d.ok
                     /\ checkSignature(d.val.owner, getToSign(d.val),
                                       d.val.signature)
                     /\ PassFilter(f, d.val)
                  THEN <<d.val>>
                  ELSE <<>>
    ELSE IF v.signed
    THEN IF checkSignature(v.owner, getToSign(v), v.signature)
            /\ PassFilter(f, v)
         THEN <<v>>
         ELSE <<>>
    ELSE IF PassFilter(f, v) THEN <<v>> ELSE <<>>

\* One turn of the loop of getCallbackFilter: what value v adds to
\* tmpvals, nothing or one value.
FilterValue(key, f, v) ==
    IF v.encrypted
    THEN IF key = NoKey
         THEN <<>>
         ELSE LET d == decrypt(key, v)
              IN  IF d.ok
                     /\ d.val.recipient = getIdOf(key)
                     /\ checkSignature(d.val.owner, getToSign(d.val),
                                       d.val.signature)
                     /\ PassFilter(f, d.val)
                  THEN <<d.val>>
                  ELSE <<>>
    ELSE IF v.signed
    THEN IF checkSignature(v.owner, getToSign(v), v.signature)
            /\ PassFilter(f, v)
         THEN <<v>>
         ELSE <<>>
    ELSE IF PassFilter(f, v) THEN <<v>> ELSE <<>>

\* The loop of getCallbackFilter left at the first signed or encrypted
\* value that is not taken.
RECURSIVE FilterBatchStopsAtFailure(_, _, _)
FilterBatchStopsAtFailure(key, f, values) ==
    IF values = <<>>
    THEN <<>>
    ELSE IF /\ FilterValue(key, f, Head(values)) = <<>>
            /\ Head(values).encrypted \/ Head(values).signed
    THEN <<>>
    ELSE FilterValue(key, f, Head(values))
           \o FilterBatchStopsAtFailure(key, f, Tail(values))

\* The loop of getCallbackFilter over a batch: tmpvals.
RECURSIVE FilterBatch(_, _, _)
FilterBatch(key, f, values) ==
    IF values = <<>>
    THEN <<>>
    ELSE FilterValue(key, f, Head(values))
           \o FilterBatch(key, f, Tail(values))

\* The callback of getCallbackFilter telling the DHT to continue whatever
\* the user callback returned.
getCallbackFilterAlwaysContinue(key, f, hasCb, uret, values) ==
    IF hasCb /\ FilterBatch(key, f, values) # <<>>
    THEN [calls |-> <<FilterBatch(key, f, values)>>, ret |-> TRUE]
    ELSE [calls |-> <<>>, ret |-> TRUE]

\* The callback getCallbackFilter returns, run on a batch: calls is the
\* sequence of calls made to the user callback (none or one, each the
\* list it was given) and ret what is returned to the DHT. hasCb says the
\* user gave a callback and uret is what that callback returns.
getCallbackFilter(key, f, hasCb, uret, values) ==
    LET tmpvals == FilterBatch(key, f, values)
    IN  IF hasCb /\ tmpvals # <<>>
        THEN [calls |-> <<tmpvals>>, ret |-> uret]
        ELSE [calls |-> <<>>, ret |-> TRUE]

\* ================================================================ state
VARIABLES
    key_,               \* SecureDht::key_: the private key, NoKey if none
    certificate_,       \* SecureDht::certificate_, NoCert if none
    localQueryMethod_,  \* whether the local certificate store hook is set
    nodesCertificates_, \* the certificate cache, a map InfoHash -> cert
    pc,                 \* where the operation in progress stands
    caller,             \* who called findCertificate: "user", "putEncrypted"
    fcNode,             \* findCertificate's node
    cbSet,              \* whether findCertificate's cb is non-null
    found,              \* the shared found flag of the get in progress
    nBatches,           \* batches the DHT delivered to the get in progress
    cbLog,              \* what cb was invoked with, in order, in this call
    peVal,              \* putEncrypted's val (the object the caller shares)
    peOrig,             \* val as it was given to putEncrypted
    puts,               \* values putEncrypted handed to put, in order
    doneLog,            \* what putEncrypted passed to done itself, in order
    nValid,             \* valid certificates for fcNode delivered so far
    fcHook,             \* what localQueryMethod_ returned, if it was called
    rxKey,              \* the key of the node that fetched the value put
    rxCalls,            \* the calls that node's user callback received
    fFilter,            \* get/listen: the user's filter
    fCbSet,             \* get/listen: whether the user's callback is set
    fBatch,             \* the batch the DHT delivered to the wrapped callback
    fUret,              \* what the user's callback returns
    fCalls,             \* the calls the user's callback received for fBatch
    fRet,               \* what the wrapped callback returned to the DHT
    eOld,               \* editPolicy: the value stored
    eNew,               \* editPolicy: the value offered in its place
    eInner,             \* what the wrapped type's own editPolicy answers
    eResult,            \* what the secured policy answered
    eTrace,             \* what the secured storePolicy did on the way
    psVal,              \* putSigned: val (the object the caller shares)
    psOrig,             \* val as it was given to putSigned
    psPrior,            \* what getPut(hash, val->id) returned
    psBatches,          \* batches the DHT delivered to putSigned's get
    psMaxOwn,           \* highest seq of an own-key value the get returned
    psLog,              \* putSigned's steps in order
    psPuts,             \* the values putSigned handed to put, in order
    ctorArgs,           \* the sockets the constructor was given
    ctorLog,            \* what the constructor registered and put, in order
    rcNode,             \* registerCertificate(node, data): node
    rcData,             \* registerCertificate(node, data): data
    rcRet,              \* what that call returned
    rcPrev,             \* the cache before that call
    sgIn,               \* sign(v): v before the call
    sgOut,              \* sign(v): v after the call
    crIn,               \* encrypt(v, to): v before the call
    crTo,               \* encrypt(v, to): the key pair to belongs to
    crVal,              \* encrypt(v, to): v after the call
    crNv,               \* what encrypt returned
    crKey,              \* the private key of the node that ran decrypt
    crOut,              \* what decrypt returned
    lcState,            \* each SecureDht object: unbuilt, live, ...
    lcInit,             \* whether its constructor ran gnutls_global_init
    lcDeinit,           \* whether its destructor ran gnutls_global_deinit
    gnutlsRefs,         \* the library's count of inits not yet undone
    ovVal,              \* two putSigned calls: the val of each
    ovPc,               \* where each call is: unissued, get, done
    ovBatches,          \* batches the DHT delivered to the get of each
    ovPuts,             \* the values handed to put, in order, by call
    ovOverlap,          \* the second call came before the first get's end
    scDone,             \* dhtscanner: the counter done
    scGets,             \* gets issued and not completed, by cur_depth
    scCb                \* where the DHT thread is in a done callback

\* The identity and the cache of the node.
nodeVars == <<key_, certificate_, localQueryMethod_, nodesCertificates_>>

\* findCertificate and putEncrypted in progress.
findVars ==
    <<caller, fcNode, cbSet, found, nBatches, cbLog, peVal, peOrig, puts,
      doneLog, nValid, rxKey, rxCalls, fcHook>>

\* A wrapped callback of get/listen.
filterVars == <<fFilter, fCbSet, fBatch, fUret, fCalls, fRet>>

\* A store or edit policy of a secured type.
policyVars == <<eOld, eNew, eInner, eResult, eTrace>>

\* putSigned in progress.
putSignedVars ==
    <<psVal, psOrig, psPrior, psBatches, psMaxOwn, psLog, psPuts>>

\* The construction of the node.
ctorVars == <<ctorArgs, ctorLog>>

\* The last registerCertificate(node, data) call.
registerVars == <<rcNode, rcData, rcRet, rcPrev>>

\* A sign(v) call.
signVars == <<sgIn, sgOut>>

\* An encrypt(v, to) call and the decrypt of what it returned.
cryptVars == <<crIn, crTo, crVal, crNv, crKey, crOut>>

\* The SecureDht objects of the process and the state of GnuTLS.
lifeVars == <<lcState, lcInit, lcDeinit, gnutlsRefs>>

\* Two putSigned calls for the same hash and value id.
overlapVars == <<ovVal, ovPc, ovBatches, ovPuts, ovOverlap>>

\* The scanner: its counter, its gets and its DHT thread.
scanVars == <<scDone, scGets, scCb>>

\* What the specifications of the later sections use.
moreVars == <<cryptVars, lifeVars, overlapVars, scanVars>>

\* What only the specifications of single operations use.
callVars == <<ctorVars, registerVars, signVars, moreVars>>

vars ==
    <<nodeVars, pc, findVars, filterVars, policyVars, putSignedVars,
      callVars>>

\* What the actions of findCertificate and putEncrypted leave alone.
notFindVars == <<filterVars, policyVars, putSignedVars, callVars>>

\* What the actions of the receive filter leave alone.
notFilterVars == <<certificate_, localQueryMethod_, nodesCertificates_,
                   findVars, policyVars, putSignedVars, callVars>>

\* What the policies leave alone.
notPolicyVars ==
    <<nodeVars, findVars, filterVars, putSignedVars, callVars>>

\* What the actions of putSigned leave alone.
notPutSignedVars ==
    <<nodeVars, findVars, filterVars, policyVars, callVars>>

\* SecureDht::getId() of this node
getId == getIdOf(key_)

\* ------------------------------------------------ certificate directory
\* SecureDht::getCertificate(node), NoCert for nullptr
getCertificate(node) ==
    IF node = getId
    THEN certificate_
    ELSE IF node \in DOMAIN nodesCertificates_
         THEN nodesCertificates_[node]
         ELSE NoCert

\* The map m with m[k] set to c (inserted or overwritten).
MapPut(m, k, c) ==
    [h \in (DOMAIN m) \cup {k} |-> IF h = k THEN c ELSE m[h]]

\* std::map::emplace(k, c): inserted only when k has no entry.
MapEmplace(m, k, c) == IF k \in DOMAIN m THEN m ELSE MapPut(m, k, c)

\* registerCertificate(node, data) storing the certificate under node
\* whatever its id.
registerCertificateNoIdTest(cache, node, data) ==
    IF data = NoCert
    THEN [cert |-> NoCert, cache |-> cache]
    ELSE [cert |-> data, cache |-> MapPut(cache, node, data)]

\* SecureDht::registerCertificate(node, data): cert is what it returns
\* (NoCert for nullptr) and cache the map it leaves.
registerCertificate(cache, node, data) ==
    IF data = NoCert
    THEN [cert |-> NoCert, cache |-> cache]
    ELSE IF node = CertId(data)
         THEN [cert |-> data, cache |-> MapPut(cache, CertId(data), data)]
         ELSE [cert |-> NoCert, cache |-> cache]

\* The first value of the batch that registerCertificate accepts for
\* node (the loop of the get callback stops there), 0 if none.
FirstValid(node, vals) ==
    LET ok == {i \in 1..Len(vals) :
                 registerCertificate(<<>>, node, vals[i]).cert # NoCert}
    IN  IF ok = {} THEN 0 ELSE CHOOSE i \in ok : \A j \in ok : i <= j

\* ----------------------------------------- findCertificate, putEncrypted
\* The lambda without its test of crt: it encrypts and puts even when no
\* certificate was found.
PutEncryptedCbNoCrtTest(v, puts0, done0, crt, thenPc) ==
    LET e == encrypt(key_, v, crt.pk)
    IN  IF e.st = "throw"
        THEN /\ doneLog' = Append(done0, FALSE)
             /\ puts' = puts0
             /\ peVal' = v
             /\ pc' = thenPc
        ELSE IF e.st = "fault"
        THEN /\ puts' = puts0
             /\ peVal' = setRecipient(v, PkId(crt.pk))
             /\ doneLog' = done0
             /\ pc' = "crashed"
        ELSE /\ puts' = Append(puts0, e.nv)
             /\ peVal' = e.val
             /\ doneLog' = done0
             /\ pc' = thenPc

\* The lambda putEncrypted gives findCertificate (lines 314-328), run on
\* crt with val = v: done(false) without a certificate or when encrypt
\* throws, else put(hash, encrypt(val, pk)).
PutEncryptedCb(v, puts0, done0, crt, thenPc) ==
    LET e == encrypt(key_, v, crt.pk)
    IN  IF crt = NoCert \/ e.st = "throw"
        THEN /\ doneLog' = Append(done0, FALSE)
             /\ puts' = puts0
             /\ peVal' = v
             /\ pc' = thenPc
        ELSE IF e.st = "fault"
        THEN /\ puts' = puts0
             /\ peVal' = setRecipient(v, PkId(crt.pk))
             /\ doneLog' = done0
             /\ pc' = "crashed"
        ELSE /\ puts' = Append(puts0, e.nv)
             /\ peVal' = e.val
             /\ doneLog' = done0
             /\ pc' = thenPc

\* if (cb) cb(crt), for the cb of the call in progress: the user's, which
\* is only recorded, or putEncrypted's lambda.
InvokeCb(who, hasCb, v, log0, puts0, done0, crt, thenPc) ==
    /\ cbLog' = IF hasCb THEN Append(log0, crt) ELSE log0
    /\ IF who = "putEncrypted"
       THEN PutEncryptedCb(v, puts0, done0, crt, thenPc)
       ELSE /\ pc' = thenPc
            /\ peVal' = v
            /\ puts' = puts0
            /\ doneLog' = done0

\* localQueryMethod_ was not called.
NotCalled == [called |-> FALSE, res |-> <<>>]

\* localQueryMethod_ was called and returned res.
Called(res) == [called |-> TRUE, res |-> res]

\* What localQueryMethod_ may return: no certificate, or a list whose
\* first element is any certificate (or a null one).
LocalResults == {<<>>} \cup {<<c>> : c \in CertBlobs}

\* findCertificate asking the local store hook before the cache.
FindCertificateBodyHookFirst(who, hasCb, v, node, res) ==
    /\ fcNode' = node
    /\ caller' = who
    /\ cbSet' = hasCb
    /\ nBatches' = 0
    /\ nValid' = 0
    /\ found' = FALSE
    /\ fcHook' = IF localQueryMethod_ THEN Called(res) ELSE NotCalled
    /\ IF localQueryMethod_ /\ res # <<>>
       THEN /\ nodesCertificates_' =
                  MapEmplace(nodesCertificates_, node, Head(res))
            /\ InvokeCb(who, hasCb, v, <<>>, <<>>, <<>>, Head(res),
                        "returned")
       ELSE IF getCertificate(node) # NoCert
       THEN /\ InvokeCb(who, hasCb, v, <<>>, <<>>, <<>>,
                        getCertificate(node), "returned")
            /\ UNCHANGED nodesCertificates_
       ELSE /\ pc' = "get"
            /\ cbLog' = <<>>
            /\ peVal' = v
            /\ puts' = <<>>
            /\ doneLog' = <<>>
            /\ UNCHANGED nodesCertificates_

\* SecureDht::findCertificate(node, cb) up to the point where it returns:
\* the cache, the local store hook, and otherwise the DHT get is issued.
FindCertificateBody(who, hasCb, v, node, res) ==
    /\ fcNode' = node
    /\ caller' = who
    /\ cbSet' = hasCb
    /\ nBatches' = 0
    /\ nValid' = 0
    /\ found' = FALSE
    /\ fcHook' = IF getCertificate(node) = NoCert /\ localQueryMethod_
                 THEN Called(res)
                 ELSE NotCalled
    /\ IF getCertificate(node) # NoCert
       THEN /\ InvokeCb(who, hasCb, v, <<>>, <<>>, <<>>,
                        getCertificate(node), "returned")
            /\ UNCHANGED nodesCertificates_
       ELSE IF localQueryMethod_ /\ res # <<>>
       THEN /\ nodesCertificates_' =
                  MapEmplace(nodesCertificates_, node, Head(res))
            /\ InvokeCb(who, hasCb, v, <<>>, <<>>, <<>>, Head(res),
                        "returned")
       ELSE /\ pc' = "get"
            /\ cbLog' = <<>>
            /\ peVal' = v
            /\ puts' = <<>>
            /\ doneLog' = <<>>
            /\ UNCHANGED nodesCertificates_

\* The values putEncrypted is called with: plain values, a value that is
\* already signed, and a value flagged encrypted.
PlainValue(id, d) == [NewValue(id) EXCEPT !.data = d]
PutEncryptedInputs ==
    {PlainValue(1, d) : d \in Datas}
      \cup {sign(k, PlainValue(1, 1)).val : k \in {1}}
      \cup {encrypt(k, PlainValue(1, 1), k).nv : k \in {1}}

\* A call of findCertificate(node, cb) by the application.
FindCertificate(node, hasCb) ==
    /\ pc = "idle"
    /\ \E res \in LocalResults :
          FindCertificateBody("user", hasCb, NewValue(0), node, res)
    /\ peOrig' = NewValue(0)
    /\ UNCHANGED <<key_, certificate_, localQueryMethod_, rxKey, rxCalls>>
    /\ UNCHANGED notFindVars

\* SecureDht::putEncrypted(hash, to, val, done)
PutEncrypted(to, v) ==
    /\ pc = "idle"
    /\ peOrig' = v
    /\ \E res \in LocalResults :
          FindCertificateBody("putEncrypted", TRUE, v, to, res)
    /\ UNCHANGED <<key_, certificate_, localQueryMethod_, rxKey, rxCalls>>
    /\ UNCHANGED notFindVars

\* The values of the batch that are valid certificates for node.
NumValid(node, vals) ==
    Cardinality({i \in 1..Len(vals) :
                   registerCertificate(<<>>, node, vals[i]).cert # NoCert})

\* A call of registerCertificate(node, data) by the application.
RegisterCertificate(node, data) ==
    /\ pc = "idle"
    /\ nodesCertificates_' =
          registerCertificate(nodesCertificates_, node, data).cache
    /\ UNCHANGED <<key_, certificate_, localQueryMethod_, pc, caller, fcNode,
                   cbSet, found, nBatches, cbLog, peVal, peOrig, puts,
                   doneLog, nValid, rxKey, rxCalls, fcHook>>
    /\ UNCHANGED notFindVars

\* A call of registerCertificate(cert) by the application, cert being
\* NoCert for a null pointer.
RegisterCertificateCert(cert) ==
    /\ pc = "idle"
    /\ nodesCertificates_' =
          IF cert # NoCert
          THEN MapPut(nodesCertificates_, CertId(cert), cert)
          ELSE nodesCertificates_
    /\ UNCHANGED <<key_, certificate_, localQueryMethod_, pc, findVars>>
    /\ UNCHANGED notFindVars

\* The value callback without its test of the found flag.
FindGetValuesNoFoundTest(vals) ==
    /\ pc = "get"
    /\ nBatches < MaxBatches
    /\ nBatches' = nBatches + 1
    /\ nValid' = nValid + NumValid(fcNode, vals)
    /\ LET i == FirstValid(fcNode, vals)
       IN  IF i = 0
           THEN UNCHANGED <<nodesCertificates_, found, cbLog, peVal, puts,
                            doneLog, pc>>
           ELSE LET r == registerCertificate(nodesCertificates_, fcNode,
                                             vals[i])
                IN  /\ nodesCertificates_' = r.cache
                    /\ found' = TRUE
                    /\ InvokeCb(caller, cbSet, peVal, cbLog, puts, doneLog,
                                r.cert, "get")
    /\ UNCHANGED <<key_, certificate_, localQueryMethod_, caller, fcNode,
                   cbSet, peOrig, rxKey, rxCalls, fcHook>>
    /\ UNCHANGED notFindVars

\* The value callback of findCertificate's get (lines 196-208), run on a
\* batch: vals holds the data of each value. The DHT may deliver a batch
\* whenever the get has not completed.
FindGetValues(vals) ==
    /\ pc = "get"
    /\ nBatches < MaxBatches
    /\ nBatches' = nBatches + 1
    /\ nValid' = nValid + NumValid(fcNode, vals)
    /\ LET i == FirstValid(fcNode, vals)
       IN  IF found \/ i = 0
           THEN UNCHANGED <<nodesCertificates_, found, cbLog, peVal, puts,
                            doneLog, pc>>
           ELSE LET r == registerCertificate(nodesCertificates_, fcNode,
                                             vals[i])
                IN  /\ nodesCertificates_' = r.cache
                    /\ found' = TRUE
                    /\ InvokeCb(caller, cbSet, peVal, cbLog, puts, doneLog,
                                r.cert, "get")
    /\ UNCHANGED <<key_, certificate_, localQueryMethod_, caller, fcNode,
                   cbSet, peOrig, rxKey, rxCalls, fcHook>>
    /\ UNCHANGED notFindVars

\* The done callback without its test of the found flag.
FindGetDoneNoFoundTest ==
    /\ pc = "get"
    /\ IF cbSet
       THEN InvokeCb(caller, cbSet, peVal, cbLog, puts, doneLog, NoCert,
                     "done")
       ELSE /\ pc' = "done"
            /\ UNCHANGED <<cbLog, peVal, puts, doneLog>>
    /\ UNCHANGED <<key_, certificate_, localQueryMethod_, nodesCertificates_,
                   caller, fcNode, cbSet, found, nBatches, peOrig, nValid,
                   rxKey, rxCalls, fcHook>>
    /\ UNCHANGED notFindVars

\* The done callback of findCertificate's get (lines 209-211).
FindGetDone ==
    /\ pc = "get"
    /\ IF ~found /\ cbSet
       THEN InvokeCb(caller, cbSet, peVal, cbLog, puts, doneLog, NoCert,
                     "done")
       ELSE /\ pc' = "done"
            /\ UNCHANGED <<cbLog, peVal, puts, doneLog>>
    /\ UNCHANGED <<key_, certificate_, localQueryMethod_, nodesCertificates_,
                   caller, fcNode, cbSet, found, nBatches, peOrig, nValid,
                   rxKey, rxCalls, fcHook>>
    /\ UNCHANGED notFindVars

\* Batches of certificate blobs the DHT may deliver.
RECURSIVE SeqsUpTo(_, _)
SeqsUpTo(S, n) ==
    IF n = 0
    THEN {<<>>}
    ELSE LET shorter == SeqsUpTo(S, n - 1)
         IN  shorter \cup {Append(q, x) : q \in shorter, x \in S}

CertBatches == SeqsUpTo(CertBlobs, MaxBatchLen)

\* No findCertificate or putEncrypted has been called.
FindIdle ==
    /\ caller = "none"
    /\ fcNode = 0
    /\ cbSet = FALSE
    /\ found = FALSE
    /\ nBatches = 0
    /\ cbLog = <<>>
    /\ peVal = NewValue(0)
    /\ peOrig = NewValue(0)
    /\ puts = <<>>
    /\ doneLog = <<>>
    /\ nValid = 0
    /\ rxKey = NoKey
    /\ rxCalls = <<>>
    /\ fcHook = NotCalled

\* No batch has been delivered to a wrapped callback.
FilterIdle ==
    /\ fFilter = NoFilter
    /\ fCbSet = FALSE
    /\ fBatch = <<>>
    /\ fUret = TRUE
    /\ fCalls = <<>>
    /\ fRet = TRUE

\* A storePolicy that has not run.
NoTrace == [checked |-> FALSE, consulted |-> FALSE]

\* No policy has been consulted.
PolicyIdle ==
    /\ eOld = NewValue(0)
    /\ eNew = NewValue(0)
    /\ eInner = TRUE
    /\ eResult = TRUE
    /\ eTrace = NoTrace

\* getPut found no announcement.
NoValue == NewValue(0)

\* putSigned has not been called.
PutSignedIdle ==
    /\ psVal = NoValue
    /\ psOrig = NoValue
    /\ psPrior = NoValue
    /\ psBatches = 0
    /\ psMaxOwn = -1
    /\ psLog = <<>>
    /\ psPuts = <<>>

\* No constructor arguments.
NoArgs == [s |-> -1, s6 |-> -1, gnutls |-> TRUE]

\* Nothing is recorded of the construction.
CtorIdle ==
    /\ ctorArgs = NoArgs
    /\ ctorLog = <<>>

\* No registerCertificate(node, data) call is recorded.
RegisterIdle ==
    /\ rcNode = 0
    /\ rcData = NoCert
    /\ rcRet = NoCert
    /\ rcPrev = <<>>

\* No sign call is recorded.
SignIdle ==
    /\ sgIn = NoValue
    /\ sgOut = NoValue

\* No encrypt or decrypt call is recorded.
CryptIdle ==
    /\ crIn = NoValue
    /\ crTo = NoKey
    /\ crVal = NoValue
    /\ crNv = NoValue
    /\ crKey = NoKey
    /\ crOut = NoValue

\* No object of the process is followed.
LifeIdle ==
    /\ lcState = <<>>
    /\ lcInit = <<>>
    /\ lcDeinit = <<>>
    /\ gnutlsRefs = 0

\* No pair of putSigned calls is followed.
OverlapIdle ==
    /\ ovVal = <<>>
    /\ ovPc = <<>>
    /\ ovBatches = <<>>
    /\ ovPuts = <<>>
    /\ ovOverlap = FALSE

\* The DHT thread is in no callback.
CbIdle == [at |-> "idle", b |-> 0, depth |-> 0]

\* No scan is followed.
ScanIdle ==
    /\ scDone = 0
    /\ scGets = <<>>
    /\ scCb = CbIdle

\* Nothing of the later sections is recorded.
MoreIdle == CryptIdle /\ LifeIdle /\ OverlapIdle /\ ScanIdle

\* After construction: an identity (a key, and possibly its certificate),
\* an empty cache, no operation in progress.
FindInit ==
    /\ key_ \in KeyIds \cup {NoKey}
    /\ certificate_ \in
          {NoCert} \cup {[pk |-> k, ser |-> 1] : k \in {key_} \cap KeyIds}
    /\ localQueryMethod_ \in BOOLEAN
    /\ nodesCertificates_ = <<>>
    /\ pc = "idle"
    /\ FindIdle
    /\ FilterIdle
    /\ PolicyIdle
    /\ PutSignedIdle
    /\ CtorIdle
    /\ RegisterIdle
    /\ SignIdle
    /\ MoreIdle

\* The value putEncrypted stored comes back from the DHT to a get(hash, cb)
\* of the node whose private key is k: that node's wrapped callback runs
\* on it, with no user filter and a user callback that returns true.
RecipientGet(k) ==
    /\ puts # <<>>
    /\ rxKey = NoKey
    /\ k # NoKey
    /\ rxKey' = k
    /\ rxCalls' = getCallbackFilter(k, NoFilter, TRUE, TRUE, puts).calls
    /\ UNCHANGED <<key_, certificate_, localQueryMethod_, nodesCertificates_,
                   pc, caller, fcNode, cbSet, found, nBatches, cbLog, peVal,
                   peOrig, puts, doneLog, nValid, fcHook>>
    /\ UNCHANGED notFindVars

FindNext ==
    \/ \E node \in Hashes, data \in CertBlobs :
          RegisterCertificate(node, data)
    \/ \E cert \in CertBlobs : RegisterCertificateCert(cert)
    \/ \E node \in Hashes, hasCb \in BOOLEAN : FindCertificate(node, hasCb)
    \/ \E to \in Hashes, v \in PutEncryptedInputs : PutEncrypted(to, v)
    \/ \E vals \in CertBatches : FindGetValues(vals)
    \/ FindGetDone
    \/ \E k \in KeyIds : RecipientGet(k)

SpecFind == FindInit /\ [][FindNext]_vars

\* ------------------------------------------------- get / listen filter
\* A value encrypted with the public key `to` whose plaintext is the
\* signed value inner (what encrypt builds, from parts that need not agree).
CypherValue(id, to, inner) ==
    setCypher(NewValue(id), PublicKeyEncrypt(to, getToEncrypt(inner)))

\* The values the DHT may hold under a hash: plain ones, signed ones (the
\* signature valid, the data changed after signing, or the owner swapped),
\* and encrypted ones (built by encrypt, or with a recipient that is not
\* the key encrypted to, with the data changed after signing, or with a
\* cypher that does not parse).
DhtValues ==
    {PlainValue(i, 1) : i \in ValueIds}
      \cup {sign(k, PlainValue(1, 1)).val : k \in KeyIds}
      \cup {[sign(1, PlainValue(1, 1)).val EXCEPT !.data = 2],
            [sign(1, PlainValue(1, 1)).val EXCEPT !.owner = 2]}
      \cup {encrypt(s, PlainValue(1, 2), r).nv : s \in KeyIds, r \in KeyIds}
      \cup {encrypt(1, PlainValue(2, 1), r).nv : r \in KeyIds}
      \cup {CypherValue(1, p[1], encrypt(1, PlainValue(1, 2), p[2]).val) :
              p \in {q \in KeyIds \X KeyIds : q[1] # q[2]}}
      \cup {CypherValue(1, r, [encrypt(1, PlainValue(1, 1), r).val
                                 EXCEPT !.data = 2]) : r \in KeyIds}
      \cup {setCypher(NewValue(1), PublicKeyEncrypt(r, GarbageBody)) :
              r \in KeyIds}

DhtBatches == SeqsUpTo(DhtValues, MaxBatchLen)

\* SecureDht::get / SecureDht::listen were called with a user callback
\* and a filter, on a node with or without a private key.
FilterInit ==
    /\ key_ \in KeyIds \cup {NoKey}
    /\ certificate_ = NoCert
    /\ localQueryMethod_ = FALSE
    /\ nodesCertificates_ = <<>>
    /\ pc = "listening"
    /\ FindIdle
    /\ PolicyIdle
    /\ PutSignedIdle
    /\ CtorIdle
    /\ RegisterIdle
    /\ SignIdle
    /\ MoreIdle
    /\ fFilter \in Filters
    /\ fCbSet \in BOOLEAN
    /\ fBatch = <<>>
    /\ fUret = TRUE
    /\ fCalls = <<>>
    /\ fRet = TRUE

\* The DHT delivers a batch to the callback getCallbackFilter returned;
\* the user's callback, if it is called, returns uret.
OnValues(values, uret) ==
    /\ pc = "listening"
    /\ pc' = "delivered"
    /\ fBatch' = values
    /\ fUret' = uret
    /\ LET r == getCallbackFilter(key_, fFilter, fCbSet, uret, values)
       IN  /\ fCalls' = r.calls
           /\ fRet' = r.ret
    /\ UNCHANGED <<key_, fFilter, fCbSet>>
    /\ UNCHANGED notFilterVars

FilterNext ==
    /\ pc = "listening"
    /\ \E values \in DhtBatches, uret \in BOOLEAN : OnValues(values, uret)

SpecFilter == FilterInit /\ [][FilterNext]_vars

\* ------------------------------------------- secureType: the edit policy
\* o->owner != n->owner. PublicKey declares no comparison operator, only
\* the implicit operator bool() (crypto.h line 86): the built-in != is
\* what applies, to the two keys converted to bool.
PublicKeyNotEqual(a, b) == (a # NoKey) # (b # NoKey)

\* The editPolicy secureType installs (lines 105-127): inner is what the
\* wrapped type's editPolicy answers, o the stored value, n the new one.
editPolicy(inner, o, n) ==
    IF ~o.signed \/ o.encrypted
    THEN inner
    ELSE IF PublicKeyNotEqual(o.owner, n.owner)
    THEN FALSE
    ELSE IF ~checkSignature(o.owner, getToSign(n), n.signature)
    THEN FALSE
    ELSE IF o.seq = n.seq
    THEN getToSign(o) = getToSign(n)
    ELSE ~(n.seq < o.seq)

\* The values a node may be offered for a (hash, id): unsigned ones, ones
\* flagged signed with any owner, any signing key, any seq, the signature
\* made over the value as offered or over other data, and encrypted ones.
SignedBy(owner, signer, seq, d) ==
    LET v == [PlainValue(1, d) EXCEPT !.owner = owner, !.signed = TRUE,
                                      !.seq = seq]
    IN  [v EXCEPT !.signature = PrivateKeySign(signer, getToSign(v))]

OfferedValues ==
    {[PlainValue(1, d) EXCEPT !.seq = q] : d \in Datas, q \in {0, MaxSeq}}
      \cup {SignedBy(o, k, q, d) :
              o \in KeyIds \cup {NoKey}, k \in KeyIds, q \in 0..MaxSeq,
              d \in Datas}
      \cup {[SignedBy(k, k, q, 1) EXCEPT !.data = 2] :
              k \in KeyIds, q \in 0..MaxSeq}
      \cup {encrypt(1, PlainValue(1, 1), 2).nv}

\* What storePolicy lets in (lines 94-104): a value flagged signed and not
\* encrypted only with a signature that verifies against its owner.
StoredValues ==
    {v \in OfferedValues :
        (v.signed /\ ~v.encrypted) =>
            checkSignature(v.owner, getToSign(v), v.signature)}

\* A value is stored, another one arrives for the same (hash, id).
EditInit ==
    /\ key_ = NoKey
    /\ certificate_ = NoCert
    /\ localQueryMethod_ = FALSE
    /\ nodesCertificates_ = <<>>
    /\ pc = "policy"
    /\ FindIdle
    /\ FilterIdle
    /\ PutSignedIdle
    /\ CtorIdle
    /\ RegisterIdle
    /\ SignIdle
    /\ MoreIdle
    /\ eOld \in StoredValues
    /\ eNew \in OfferedValues
    /\ eInner = TRUE
    /\ eResult = TRUE
    /\ eTrace = NoTrace

\* The DHT consults the secured type's editPolicy for eOld -> eNew.
EditPolicy(inner) ==
    /\ pc = "policy"
    /\ pc' = "decided"
    /\ eInner' = inner
    /\ eResult' = editPolicy(inner, eOld, eNew)
    /\ UNCHANGED <<eOld, eNew, eTrace>>
    /\ UNCHANGED notPolicyVars

EditNext == \E inner \in BOOLEAN : EditPolicy(inner)

SpecEdit == EditInit /\ [][EditNext]_vars


\* ------------------------------------------------------------ putSigned
\* Value::INVALID_ID: the id of a value that has none yet.
INVALID_ID == 0

\* putSigned, the getPut step: testing val->seq < p->seq.
getPutBumpStrict(val, p) ==
    IF p # NoValue /\ val.seq < p.seq
    THEN [val EXCEPT !.seq = p.seq + 1]
    ELSE val

\* putSigned, the getPut step: a prior local announcement p under
\* (hash, val->id) with val->seq <= p->seq moves val->seq past it.
getPutBump(val, p) ==
    IF p # NoValue /\ val.seq <= p.seq
    THEN [val EXCEPT !.seq = p.seq + 1]
    ELSE val

\* The body of the get callback's loop, testing val->seq < v->seq.
seqBumpStrict(myId, val, v) ==
    IF ~v.signed THEN val
    ELSE IF getIdOf(v.owner) # myId THEN val
    ELSE IF val.seq < v.seq THEN [val EXCEPT !.seq = v.seq + 1]
    ELSE val

\* The body of the get callback's loop for one value v: an unsigned value
\* and a value of another owner are only logged, a value of this node's
\* own key moves val->seq past its seq.
seqBump(myId, val, v) ==
    IF ~v.signed THEN val
    ELSE IF getIdOf(v.owner) # myId THEN val
    ELSE IF val.seq <= v.seq THEN [val EXCEPT !.seq = v.seq + 1]
    ELSE val

\* The get callback of putSigned: the loop over the values of one call.
RECURSIVE putSignedGetCb(_, _, _)
putSignedGetCb(myId, val, vals) ==
    IF vals = <<>>
    THEN val
    ELSE putSignedGetCb(myId, seqBump(myId, val, Head(vals)), Tail(vals))

Max(a, b) == IF a < b THEN b ELSE a

\* The highest seq among the values of vals that are signed and owned by
\* key, or m if that is higher.
RECURSIVE MaxOwnSeq(_, _, _)
MaxOwnSeq(key, m, vals) ==
    IF vals = <<>>
    THEN m
    ELSE LET v == Head(vals)
         IN  MaxOwnSeq(key,
                       IF v.signed /\ key # NoKey /\ v.owner = key
                       THEN Max(m, v.seq) ELSE m,
                       Tail(vals))

\* A value with a seq.
SeqValue(id, d, n) == [PlainValue(id, d) EXCEPT !.seq = n]

\* What a caller hands to putSigned: a new value with or without an id,
\* a value this node signed before, a value flagged encrypted.
PutSignedInputs ==
    {SeqValue(i, 1, n) : i \in {INVALID_ID, 1}, n \in 0..MaxSeq}
      \cup {sign(1, SeqValue(1, 1, MaxSeq)).val,
            encrypt(1, PlainValue(1, 1), 2).nv}

\* What getPut can return for an id: nothing, or the value this node
\* announced under it.
PriorAnnouncements(id) ==
    {NoValue} \cup {SeqValue(id, 2, n) : n \in 0..MaxSeq}

\* What the DHT may return to the get of putSigned: values signed by the
\* key of this node at every seq, a value signed by another key, a value
\* changed after signing, an unsigned value, a value with another id, a
\* value encrypted to this node.
PutSignedDhtValues ==
    {sign(1, SeqValue(1, 2, n)).val : n \in 0..MaxSeq}
      \cup {sign(2, SeqValue(1, 2, MaxSeq)).val,
            [sign(1, SeqValue(1, 1, MaxSeq)).val EXCEPT !.data = 2],
            SeqValue(1, 2, MaxSeq),
            sign(1, SeqValue(2, 2, MaxSeq)).val,
            encrypt(1, SeqValue(1, 2, MaxSeq), 1).nv}

PutSignedBatches == SeqsUpTo(PutSignedDhtValues, MaxBatchLen)

\* One more step of putSigned; a run of seq adjustments is one entry.
Logged(log, e) ==
    IF e = "bump" /\ log # <<>> /\ log[Len(log)] = "bump"
    THEN log
    ELSE Append(log, e)

\* After construction, for a node with or without an identity.
PutSignedInit ==
    /\ key_ \in {NoKey, 1}
    /\ certificate_ = NoCert
    /\ localQueryMethod_ = FALSE
    /\ nodesCertificates_ = <<>>
    /\ pc = "idle"
    /\ FindIdle
    /\ FilterIdle
    /\ PolicyIdle
    /\ PutSignedIdle
    /\ CtorIdle
    /\ RegisterIdle
    /\ SignIdle
    /\ MoreIdle

\* putSigned(hash, val, callback) up to its return: val gets an id if it
\* has none (rid is what the random draw gives), its seq passes the seq
\* of a prior local announcement p, and the get for the values with its
\* id is issued.
PutSigned(v, rid, p) ==
    /\ pc = "idle"
    /\ LET val == IF v.id = INVALID_ID THEN [v EXCEPT !.id = rid] ELSE v
       IN  /\ p \in PriorAnnouncements(val.id)
           /\ psOrig' = val
           /\ psVal' = getPutBump(val, p)
    /\ psPrior' = p
    /\ psLog' = <<"get">>
    /\ pc' = "psGet"
    /\ UNCHANGED <<psBatches, psMaxOwn, psPuts>>
    /\ UNCHANGED notPutSignedVars

\* The get callback signing and putting val itself, once it has seen the
\* values of a batch.
PutSignedGetValuesPutting(vals) ==
    /\ pc = "psGet"
    /\ psBatches < MaxBatches
    /\ key_ # NoKey
    /\ ~psVal.encrypted
    /\ psBatches' = psBatches + 1
    /\ LET r == getCallbackFilter(key_, IdFilter(psVal.id), TRUE, TRUE, vals)
           seen == IF r.calls = <<>> THEN <<>> ELSE r.calls[1]
           val == putSignedGetCb(getId, psVal, seen)
       IN  /\ psVal' = sign(key_, val).val
           /\ psMaxOwn' = MaxOwnSeq(key_, psMaxOwn, seen)
           /\ psPuts' = Append(psPuts, sign(key_, val).val)
           /\ psLog' = psLog \o <<"sign", "put">>
    /\ UNCHANGED <<pc, psOrig, psPrior>>
    /\ UNCHANGED notPutSignedVars

\* The DHT delivers a batch to the get of putSigned: the values go through
\* the wrapped callback with the filter id == val->id, and the callback of
\* putSigned adjusts val->seq on those that get through.
PutSignedGetValues(vals) ==
    /\ pc = "psGet"
    /\ psBatches < MaxBatches
    /\ psBatches' = psBatches + 1
    /\ LET r == getCallbackFilter(key_, IdFilter(psVal.id), TRUE, TRUE, vals)
           seen == IF r.calls = <<>> THEN <<>> ELSE r.calls[1]
           val == putSignedGetCb(getId, psVal, seen)
       IN  /\ psVal' = val
           /\ psMaxOwn' = MaxOwnSeq(key_, psMaxOwn, seen)
           /\ psLog' = IF val.seq # psVal.seq
                       THEN Logged(psLog, "bump")
                       ELSE psLog
    /\ UNCHANGED <<pc, psOrig, psPrior, psPuts>>
    /\ UNCHANGED notPutSignedVars

\* The get of putSigned completes: the done callback signs val and puts
\* it. sign throwing leaves the callback before the put; without a private
\* key sign reads through a null key_.
PutSignedGetDone ==
    /\ pc = "psGet"
    /\ LET s == sign(key_, psVal)
       IN  /\ psVal' = s.val
           /\ psLog' = psLog \o (IF s.st = "ok"
                                 THEN <<"done", "sign", "put">>
                                 ELSE <<"done", "sign">>)
           /\ psPuts' = IF s.st = "ok" THEN Append(psPuts, s.val) ELSE psPuts
           /\ pc' = IF s.st = "fault" THEN "crashed" ELSE "psDone"
    /\ UNCHANGED <<psOrig, psPrior, psBatches, psMaxOwn>>
    /\ UNCHANGED notPutSignedVars

PutSignedNext ==
    \/ \E v \in PutSignedInputs, rid \in ValueIds,
          p \in PriorAnnouncements(1) \cup PriorAnnouncements(2) :
          PutSigned(v, rid, p)
    \/ \E vals \in PutSignedBatches : PutSignedGetValues(vals)
    \/ PutSignedGetDone

SpecPutSigned == PutSignedInit /\ [][PutSignedNext]_vars

\* ----------------------------------------------------------- storePolicy
\* The storePolicy checking the signature of every value flagged signed,
\* encrypted or not.
storePolicyChecksEncrypted(inner, v) ==
    IF v.signed
    THEN IF ~checkSignature(v.owner, getToSign(v), v.signature)
         THEN [ok |-> FALSE, checked |-> TRUE, consulted |-> FALSE]
         ELSE [ok |-> inner, checked |-> TRUE, consulted |-> TRUE]
    ELSE [ok |-> inner, checked |-> FALSE, consulted |-> TRUE]

\* The storePolicy secureType installs (lines 94-104): inner is what the
\* wrapped type's storePolicy answers for v; checked is whether the
\* signature of v was verified, consulted whether the inner policy was
\* called.
storePolicy(inner, v) ==
    IF v.signed /\ ~v.encrypted
    THEN IF ~checkSignature(v.owner, getToSign(v), v.signature)
         THEN [ok |-> FALSE, checked |-> TRUE, consulted |-> FALSE]
         ELSE [ok |-> inner, checked |-> TRUE, consulted |-> TRUE]
    ELSE [ok |-> inner, checked |-> FALSE, consulted |-> TRUE]

\* Encrypted values as a node is offered them: built by encrypt, and ones
\* that also carry the signed flag, with a signature that verifies or not.
OfferedEncrypted ==
    {encrypt(1, PlainValue(1, 1), 2).nv,
     [SignedBy(1, 1, 0, 1) EXCEPT !.encrypted = TRUE],
     [SignedBy(1, 2, 0, 1) EXCEPT !.encrypted = TRUE]}

\* A value arrives to be stored under a (hash, id) that holds none.
StoreInit ==
    /\ key_ = NoKey
    /\ certificate_ = NoCert
    /\ localQueryMethod_ = FALSE
    /\ nodesCertificates_ = <<>>
    /\ pc = "store"
    /\ FindIdle
    /\ FilterIdle
    /\ PutSignedIdle
    /\ CtorIdle
    /\ RegisterIdle
    /\ SignIdle
    /\ MoreIdle
    /\ eOld = NewValue(0)
    /\ eNew \in OfferedValues \cup OfferedEncrypted
    /\ eInner = TRUE
    /\ eResult = TRUE
    /\ eTrace = NoTrace

\* The DHT consults the secured type's storePolicy for eNew.
StorePolicy(inner) ==
    /\ pc = "store"
    /\ pc' = "storeDecided"
    /\ eInner' = inner
    /\ LET r == storePolicy(inner, eNew)
       IN  /\ eResult' = r.ok
           /\ eTrace' = [checked |-> r.checked, consulted |-> r.consulted]
    /\ UNCHANGED <<eOld, eNew>>
    /\ UNCHANGED notPolicyVars

StoreNext == \E inner \in BOOLEAN : StorePolicy(inner)

SpecStore == StoreInit /\ [][StoreNext]_vars

\* ---------------------------------------------------------- construction
\* The tag of the value type of certificates.
CERTIFICATE_TYPE == 8

\* The value types of default_types.h, by tag: the ones registered
\* through registerType and the ones registered through
\* registerInsecureType.
DEFAULT_TYPES == <<1, 2>>
DEFAULT_INSECURE_TYPES == <<3>>

\* The file descriptors a socket argument can be: none, or an open one.
SocketArgs == {-1, 3}

\* registerType(type): the type is registered wrapped by secureType.
registerType(log, type) ==
    Append(log, [op |-> "register", type |-> type, secure |-> TRUE])

\* registerInsecureType(type): the type is registered as it is.
registerInsecureType(log, type) ==
    Append(log, [op |-> "register", type |-> type, secure |-> FALSE])

\* The loops of the constructor over the default types, lines 58-62.
RECURSIVE registerAll(_, _, _)
registerAll(log, list, secure) ==
    IF list = <<>>
    THEN log
    ELSE registerAll(IF secure
                     THEN registerType(log, Head(list))
                     ELSE registerInsecureType(log, Head(list)),
                     Tail(list), secure)

\* The constructor registering CERTIFICATE_TYPE through registerType.
ctorTypesSecureCertificate ==
    registerType(
        registerAll(registerAll(<<>>, DEFAULT_TYPES, TRUE),
                    DEFAULT_INSECURE_TYPES, FALSE),
        CERTIFICATE_TYPE)

\* The registrations of the constructor, lines 58-64.
ctorTypes ==
    registerInsecureType(
        registerAll(registerAll(<<>>, DEFAULT_TYPES, TRUE),
                    DEFAULT_INSECURE_TYPES, FALSE),
        CERTIFICATE_TYPE)

\* Whether the constructor throws on the identity: a certificate and a
\* private key whose public-key ids differ.
ctorMismatch(key, cert) ==
    cert # NoCert /\ key # NoKey /\ CertId(cert) # PkId(key)

\* Dht::put(certId, Value {CERTIFICATE_TYPE, *certificate_, 1}, ...)
CertificatePut(cert) ==
    [op |-> "put", hash |-> CertId(cert), type |-> CERTIFICATE_TYPE,
     id |-> 1, data |-> cert]

\* The end of the constructor, lines 66-80: it puts its own certificate,
\* if it has one and the identity is consistent.
ctorPut(log, key, cert) ==
    IF cert # NoCert /\ ~ctorMismatch(key, cert)
    THEN Append(log, CertificatePut(cert))
    ELSE log

\* The registrations and the puts of a log.
Registered(log) == SelectSeq(log, LAMBDA e : e.op = "register")
Puts(log) == SelectSeq(log, LAMBDA e : e.op = "put")

\* Nothing is constructed yet.
CtorInit ==
    /\ key_ = NoKey
    /\ certificate_ = NoCert
    /\ localQueryMethod_ = FALSE
    /\ nodesCertificates_ = <<>>
    /\ pc = "unbuilt"
    /\ FindIdle
    /\ FilterIdle
    /\ PolicyIdle
    /\ PutSignedIdle
    /\ CtorIdle
    /\ RegisterIdle
    /\ SignIdle
    /\ MoreIdle

\* SecureDht::SecureDht(s, s6, id) with id = (key, cert); gnutls is
\* whether gnutls_global_init succeeds.
Construct(s, s6, key, cert, gnutls) ==
    /\ pc = "unbuilt"
    /\ key_' = key
    /\ certificate_' = cert
    /\ ctorArgs' = [s |-> s, s6 |-> s6, gnutls |-> gnutls]
    /\ IF s < 0 /\ s6 < 0
       THEN /\ pc' = "constructed"
            /\ UNCHANGED ctorLog
       ELSE IF ~gnutls
       THEN /\ pc' = "ctorThrew"
            /\ UNCHANGED ctorLog
       ELSE /\ ctorLog' = ctorPut(ctorTypes, key, cert)
            /\ pc' = IF ctorMismatch(key, cert)
                     THEN "ctorThrew"
                     ELSE "constructed"
    /\ UNCHANGED <<localQueryMethod_, nodesCertificates_>>
    /\ UNCHANGED <<findVars, filterVars, policyVars, putSignedVars,
                   registerVars, signVars, moreVars>>

\* The DHT reports the outcome of the put of the certificate; the
\* callback only logs it.
CtorPutDone(ok) ==
    /\ pc = "constructed"
    /\ Puts(ctorLog) # <<>>
    /\ pc' = IF ok THEN "announced" ELSE "notAnnounced"
    /\ UNCHANGED <<nodeVars, findVars, filterVars, policyVars,
                   putSignedVars, callVars>>

CtorNext ==
    \/ \E s \in SocketArgs, s6 \in SocketArgs, key \in KeyIds \cup {NoKey},
          cert \in CertBlobs, gnutls \in BOOLEAN :
          Construct(s, s6, key, cert, gnutls)
    \/ \E ok \in BOOLEAN : CtorPutDone(ok)

SpecCtor == CtorInit /\ [][CtorNext]_vars

\* --------------------------------------------------- registerCertificate
\* After construction, the cache is empty.
RegisterInit ==
    /\ key_ = NoKey
    /\ certificate_ = NoCert
    /\ localQueryMethod_ = FALSE
    /\ nodesCertificates_ = <<>>
    /\ pc = "idle"
    /\ FindIdle
    /\ FilterIdle
    /\ PolicyIdle
    /\ PutSignedIdle
    /\ CtorIdle
    /\ RegisterIdle
    /\ SignIdle
    /\ MoreIdle

\* A call of registerCertificate(node, data), with what it was given,
\* what it found and what it returned.
RegisterCertificateCall(node, data) ==
    /\ pc = "idle"
    /\ rcNode' = node
    /\ rcData' = data
    /\ rcPrev' = nodesCertificates_
    /\ LET r == registerCertificate(nodesCertificates_, node, data)
       IN  /\ rcRet' = r.cert
           /\ nodesCertificates_' = r.cache
    /\ UNCHANGED <<key_, certificate_, localQueryMethod_, pc, findVars,
                   filterVars, policyVars, putSignedVars, ctorVars, signVars,
                   moreVars>>

RegisterNext ==
    \E node \in Hashes, data \in CertBlobs :
        RegisterCertificateCall(node, data)

SpecRegister == RegisterInit /\ [][RegisterNext]_vars

\* ------------------------------------------------------------------ sign
\* The values sign is called on: new ones with any id, data and seq, with
\* or without a recipient, ones signed before by this or another key, and
\* ones flagged encrypted.
SignInputs ==
    {[SeqValue(i, d, n) EXCEPT !.hasRecip = h,
                               !.recipient = IF h THEN PkId(2) ELSE 0] :
        i \in ValueIds, d \in Datas, n \in 0..MaxSeq, h \in BOOLEAN}
      \cup {sign(k, SeqValue(1, 1, MaxSeq)).val : k \in KeyIds}
      \cup {encrypt(1, PlainValue(1, 1), 2).nv,
            [SignedBy(1, 1, 0, 1) EXCEPT !.encrypted = TRUE]}

\* A node, with or without a private key, is about to sign a value.
SignInit ==
    /\ key_ \in KeyIds \cup {NoKey}
    /\ certificate_ = NoCert
    /\ localQueryMethod_ = FALSE
    /\ nodesCertificates_ = <<>>
    /\ pc = "sign"
    /\ FindIdle
    /\ FilterIdle
    /\ PolicyIdle
    /\ PutSignedIdle
    /\ CtorIdle
    /\ RegisterIdle
    /\ MoreIdle
    /\ sgIn \in SignInputs
    /\ sgOut = sgIn

\* SecureDht::sign(v) on sgIn: it returns, throws, or reads through the
\* null key_.
Sign ==
    /\ pc = "sign"
    /\ LET r == sign(key_, sgIn)
       IN  /\ sgOut' = r.val
           /\ pc' = CASE r.st = "ok" -> "signed"
                      [] r.st = "throw" -> "signThrew"
                      [] OTHER -> "crashed"
    /\ UNCHANGED <<nodeVars, sgIn, findVars, filterVars, policyVars,
                   putSignedVars, ctorVars, registerVars, moreVars>>

SignNext == Sign

SpecSign == SignInit /\ [][SignNext]_vars

\* --------------------------------------------------- encrypt and decrypt
\* A node, with or without a private key, is about to encrypt a value to
\* the public key of crTo.
CryptInit ==
    /\ key_ \in KeyIds \cup {NoKey}
    /\ certificate_ = NoCert
    /\ localQueryMethod_ = FALSE
    /\ nodesCertificates_ = <<>>
    /\ pc = "crypt"
    /\ FindIdle
    /\ FilterIdle
    /\ PolicyIdle
    /\ PutSignedIdle
    /\ CtorIdle
    /\ RegisterIdle
    /\ SignIdle
    /\ LifeIdle
    /\ OverlapIdle
    /\ ScanIdle
    /\ crIn \in SignInputs
    /\ crTo \in KeyIds
    /\ crVal = crIn
    /\ crNv = NoValue
    /\ crKey = NoKey
    /\ crOut = NoValue

\* SecureDht::encrypt(v, to) on crIn: it returns, throws, or reads through
\* the null key_ inside sign.
Encrypt ==
    /\ pc = "crypt"
    /\ LET r == encrypt(key_, crIn, crTo)
       IN  /\ crVal' = r.val
           /\ crNv' = IF r.st = "ok" THEN r.nv ELSE NoValue
           /\ pc' = CASE r.st = "ok" -> "encrypted"
                      [] r.st = "throw" -> "encryptThrew"
                      [] OTHER -> "crashed"
    /\ UNCHANGED <<crIn, crTo, crKey, crOut>>

\* SecureDht::decrypt(v), run by a node whose private key is k (NoKey for
\* a node without one), on the value encrypt returned: it returns,
\* throws, or reads through the null key_.
Decrypt(k) ==
    /\ pc = "encrypted"
    /\ LET r == decrypt(k, crNv)
       IN  /\ crKey' = k
           /\ crOut' = IF r.ok THEN r.val ELSE NoValue
           /\ pc' = CASE r.st = "ok" -> "decrypted"
                      [] r.st = "throw" -> "decryptThrew"
                      [] OTHER -> "decryptCrashed"
    /\ UNCHANGED <<crIn, crTo, crVal, crNv>>

\* SecureDht::decrypt(v), run by a node whose private key is k (NoKey for
\* a node without one), on crIn itself.
DecryptInput(k) ==
    /\ pc = "crypt"
    /\ LET r == decrypt(k, crIn)
       IN  /\ crKey' = k
           /\ crOut' = IF r.ok THEN r.val ELSE NoValue
           /\ pc' = CASE r.st = "ok" -> "inputDecrypted"
                      [] r.st = "throw" -> "inputDecryptThrew"
                      [] OTHER -> "inputDecryptCrashed"
    /\ UNCHANGED <<crIn, crTo, crVal, crNv>>

CryptNext ==
    /\ \/ Encrypt
       \/ \E k \in KeyIds \cup {NoKey} : Decrypt(k)
       \/ \E k \in KeyIds \cup {NoKey} : DecryptInput(k)
    /\ UNCHANGED <<nodeVars, findVars, filterVars, policyVars,
                   putSignedVars, ctorVars, registerVars, signVars,
                   lifeVars, overlapVars, scanVars>>

SpecCrypt == CryptInit /\ [][CryptNext]_vars

\* ------------------------------------- construction and destruction
\* The SecureDht objects the process creates.
Instances == 1..MaxInstances

\* The constructor on a GnuTLS older than 3.3, lines 49-69: init is
\* whether it ran gnutls_global_init with success, st how it ended.
ctorGnutls(s, s6, key, cert, gnutls) ==
    IF s < 0 /\ s6 < 0
    THEN [init |-> FALSE, st |-> "live"]
    ELSE IF ~gnutls
    THEN [init |-> FALSE, st |-> "ctorThrew"]
    ELSE [init |-> TRUE,
          st |-> IF ctorMismatch(key, cert) THEN "ctorThrew" ELSE "live"]

\* gnutls_global_init() that succeeds.
gnutlsGlobalInit(refs) == refs + 1

\* gnutls_global_deinit(): the library is torn down when the count
\* reaches zero.
gnutlsGlobalDeinit(refs) == IF refs > 0 THEN refs - 1 ELSE 0

\* The process has built no object yet.
LifeInit ==
    /\ key_ = NoKey
    /\ certificate_ = NoCert
    /\ localQueryMethod_ = FALSE
    /\ nodesCertificates_ = <<>>
    /\ pc = "process"
    /\ FindIdle
    /\ FilterIdle
    /\ PolicyIdle
    /\ PutSignedIdle
    /\ CtorIdle
    /\ RegisterIdle
    /\ SignIdle
    /\ CryptIdle
    /\ OverlapIdle
    /\ ScanIdle
    /\ lcState = [i \in Instances |-> "unbuilt"]
    /\ lcInit = [i \in Instances |-> FALSE]
    /\ lcDeinit = [i \in Instances |-> FALSE]
    /\ gnutlsRefs = 0

\* SecureDht::SecureDht(s, s6, id) for object i, on a GnuTLS older than
\* 3.3.
ConstructInstance(i, s, s6, key, cert, gnutls) ==
    /\ lcState[i] = "unbuilt"
    /\ LET r == ctorGnutls(s, s6, key, cert, gnutls)
       IN  /\ lcState' = [lcState EXCEPT ![i] = r.st]
           /\ lcInit' = [lcInit EXCEPT ![i] = r.init]
           /\ gnutlsRefs' = IF r.init
                            THEN gnutlsGlobalInit(gnutlsRefs)
                            ELSE gnutlsRefs
    /\ UNCHANGED lcDeinit

\* SecureDht::~SecureDht() for object i, on a GnuTLS older than 3.3. An
\* object whose constructor threw has no destructor call.
DestroyInstance(i) ==
    /\ lcState[i] = "live"
    /\ lcState' = [lcState EXCEPT ![i] = "destroyed"]
    /\ lcDeinit' = [lcDeinit EXCEPT ![i] = TRUE]
    /\ gnutlsRefs' = gnutlsGlobalDeinit(gnutlsRefs)
    /\ UNCHANGED lcInit

LifeNext ==
    /\ \/ \E i \in Instances, s \in SocketArgs, s6 \in SocketArgs,
             key \in KeyIds \cup {NoKey}, cert \in CertBlobs,
             gnutls \in BOOLEAN :
             ConstructInstance(i, s, s6, key, cert, gnutls)
       \/ \E i \in Instances : DestroyInstance(i)
    /\ UNCHANGED <<nodeVars, pc, findVars, filterVars, policyVars,
                   putSignedVars, ctorVars, registerVars, signVars,
                   cryptVars, overlapVars, scanVars>>

SpecLife == LifeInit /\ [][LifeNext]_vars

\* ------------------------------------------ two putSigned calls at once
\* The two calls, in the order they are issued.
Calls == {1, 2}

\* getPut(hash, id): the value this node last handed to put under the
\* hash and the id, NoValue for nullptr.
getPut(done) == IF done = <<>> THEN NoValue ELSE done[Len(done)].val

\* What the DHT may return to a get for the id: values signed by any key
\* at every seq, and what this node has put.
OverlapDhtValues(done) ==
    {sign(k, SeqValue(1, 2, n)).val : k \in KeyIds, n \in 0..MaxSeq}
      \cup {done[i].val : i \in DOMAIN done}

\* After construction, for a node with an identity: two values with the
\* same id, different objects with different data, are about to be given
\* to putSigned with the same hash.
OverlapInit ==
    /\ key_ \in KeyIds
    /\ certificate_ = NoCert
    /\ localQueryMethod_ = FALSE
    /\ nodesCertificates_ = <<>>
    /\ pc = "calls"
    /\ FindIdle
    /\ FilterIdle
    /\ PolicyIdle
    /\ PutSignedIdle
    /\ CtorIdle
    /\ RegisterIdle
    /\ SignIdle
    /\ CryptIdle
    /\ LifeIdle
    /\ ScanIdle
    /\ ovVal \in [Calls -> {SeqValue(1, 1, n) : n \in 0..MaxSeq}]
    /\ ovPc = [c \in Calls |-> "unissued"]
    /\ ovBatches = [c \in Calls |-> 0]
    /\ ovPuts = <<>>
    /\ ovOverlap = FALSE

\* putSigned(hash, val, callback) of call c up to its return: the seq of
\* val passes the seq of what getPut returns, and the get is issued.
OverlapPutSigned(c) ==
    /\ ovPc[c] = "unissued"
    /\ \A b \in Calls : b < c => ovPc[b] # "unissued"
    /\ ovVal' = [ovVal EXCEPT
                   ![c] = getPutBump([ovVal[c] EXCEPT !.data = c],
                                     getPut(ovPuts))]
    /\ ovPc' = [ovPc EXCEPT ![c] = "get"]
    /\ ovOverlap' = (ovOverlap \/ \E b \in Calls : ovPc[b] = "get")
    /\ UNCHANGED <<ovBatches, ovPuts>>

\* The DHT delivers a batch to the get of call c; the callback of
\* putSigned adjusts val->seq on the values that get through the filter.
OverlapGetValues(c, vals) ==
    /\ ovPc[c] = "get"
    /\ ovBatches[c] < MaxBatches
    /\ ovBatches' = [ovBatches EXCEPT ![c] = @ + 1]
    /\ LET r == getCallbackFilter(key_, IdFilter(ovVal[c].id), TRUE, TRUE,
                                  vals)
           seen == IF r.calls = <<>> THEN <<>> ELSE r.calls[1]
       IN  ovVal' = [ovVal EXCEPT
                       ![c] = putSignedGetCb(getId, ovVal[c], seen)]
    /\ UNCHANGED <<ovPc, ovPuts, ovOverlap>>

\* The get of call c completes: the done callback signs val and puts it.
OverlapGetDone(c) ==
    /\ ovPc[c] = "get"
    /\ LET s == sign(key_, ovVal[c])
       IN  /\ ovVal' = [ovVal EXCEPT ![c] = s.val]
           /\ ovPuts' = IF s.st = "ok"
                        THEN Append(ovPuts, [call |-> c, val |-> s.val])
                        ELSE ovPuts
    /\ ovPc' = [ovPc EXCEPT ![c] = "done"]
    /\ UNCHANGED <<ovBatches, ovOverlap>>

OverlapNext ==
    /\ \/ \E c \in Calls : OverlapPutSigned(c)
       \/ \E c \in Calls :
             \E v \in OverlapDhtValues(ovPuts) : OverlapGetValues(c, <<v>>)
       \/ \E c \in Calls : OverlapGetDone(c)
    /\ UNCHANGED <<nodeVars, pc, findVars, filterVars, policyVars,
                   putSignedVars, ctorVars, registerVars, signVars,
                   cryptVars, lifeVars, scanVars>>

SpecOverlap == OverlapInit /\ [][OverlapNext]_vars

\* ------------------------------------------------------- dhtscanner
\* The deepest bucket a get can report: commonBits(first, last) + 3.
MaxBucketDepth == MaxCommonBits + 3

\* The cur_depth a step can have.
Depths == 0..MaxBucketDepth

\* The gets issued and not completed.
Outstanding == {d \in Depths : scGets[d] > 0}

\* step(dht, done, all_nodes, cur_h, cur_depth) up to its return: done++,
\* then the get is issued.
step(depth) ==
    /\ scDone' = scDone + 1
    /\ scGets' = [scGets EXCEPT ![depth] = @ + 1]

\* main before the scan, lines 96-120: gnutls_global_init() has run, the
\* node runs with the generated identity (a key and its certificate) on
\* an IPv4 socket, with or without an IPv6 one, done is 0 and no get is
\* issued.
ScanInit ==
    /\ key_ = 1
    /\ certificate_ \in {c \in Certs : c.pk = 1}
    /\ localQueryMethod_ = FALSE
    /\ nodesCertificates_ = <<>>
    /\ pc = "scanStart"
    /\ FindIdle
    /\ FilterIdle
    /\ PolicyIdle
    /\ PutSignedIdle
    /\ \E s6 \in SocketArgs : ctorArgs = [s |-> 3, s6 |-> s6, gnutls |-> TRUE]
    /\ ctorLog = ctorPut(ctorTypes, key_, certificate_)
    /\ RegisterIdle
    /\ SignIdle
    /\ CryptIdle
    /\ OverlapIdle
    /\ lcState = <<>>
    /\ lcInit = <<>>
    /\ lcDeinit = <<>>
    /\ gnutlsRefs = gnutlsGlobalInit(0)
    /\ scDone = 0
    /\ scGets = [d \in Depths |-> 0]
    /\ scCb = CbIdle

\* main: step(dht, done, all_nodes, cur_h, 0)
MainStep ==
    /\ pc = "scanStart"
    /\ step(0)
    /\ pc' = "scanCheck"
    /\ UNCHANGED <<scCb, gnutlsRefs>>

\* main, cv.wait(lk, pred): the predicate done.load() == 0 is evaluated;
\* when it is false main goes on to block.
MainCheck ==
    /\ pc = "scanCheck"
    /\ pc' = IF scDone = 0 THEN "scanEnded" ELSE "scanBlock"
    /\ UNCHANGED <<scanVars, gnutlsRefs>>

\* main, cv.wait(lk, pred): main blocks on cv. The mutex lk holds is
\* local to main and the callback never takes it.
MainBlock ==
    /\ pc = "scanBlock"
    /\ pc' = "scanWaiting"
    /\ UNCHANGED <<scanVars, gnutlsRefs>>

\* main wakes up without a notification, as condition_variable::wait may,
\* and evaluates the predicate again.
SpuriousWakeup ==
    /\ pc = "scanWaiting"
    /\ pc' = "scanCheck"
    /\ UNCHANGED <<scanVars, gnutlsRefs>>

\* main after the wait, lines 131-135: the scan is reported as ended and
\* dht.join() returns once the DHT thread has left its callback.
MainJoin ==
    /\ pc = "scanEnded"
    /\ scCb = CbIdle
    /\ pc' = "scanJoined"
    /\ UNCHANGED <<scanVars, gnutlsRefs>>

\* main, line 136: gnutls_global_deinit(), after the join.
MainDeinit ==
    /\ pc = "scanJoined"
    /\ pc' = "scanExited"
    /\ gnutlsRefs' = gnutlsGlobalDeinit(gnutlsRefs)
    /\ UNCHANGED scanVars

\* The DHT thread enters the done callback of a get of cur_depth depth:
\* with nodes it goes through the loop up to the depth of the bucket,
\* without nodes it goes straight to done--.
GetDone(depth, empty, commonBits) ==
    /\ scCb.at = "idle"
    /\ scGets[depth] > 0
    /\ scGets' = [scGets EXCEPT ![depth] = @ - 1]
    /\ scCb' = IF empty
               THEN [at |-> "decrement", b |-> 0, depth |-> 0]
               ELSE [at |-> "loop", b |-> depth, depth |-> commonBits + 3]
    /\ UNCHANGED <<pc, scDone>>

\* One turn of the loop of the done callback: step(..., new_h, b+1), or
\* the end of the loop.
CallbackLoop ==
    /\ scCb.at = "loop"
    /\ IF scCb.b < scCb.depth
       THEN /\ step(scCb.b + 1)
            /\ scCb' = [scCb EXCEPT !.b = @ + 1]
       ELSE /\ scCb' = [at |-> "decrement", b |-> 0, depth |-> 0]
            /\ UNCHANGED <<scDone, scGets>>
    /\ UNCHANGED pc

\* The done callback: done--
CallbackDecrement ==
    /\ scCb.at = "decrement"
    /\ scDone' = scDone - 1
    /\ scCb' = [scCb EXCEPT !.at = "notify"]
    /\ UNCHANGED <<pc, scGets>>

\* The done callback: cv.notify_one(), which wakes main if it is blocked
\* on cv and does nothing otherwise.
CallbackNotify ==
    /\ scCb.at = "notify"
    /\ pc' = IF pc = "scanWaiting" THEN "scanCheck" ELSE pc
    /\ scCb' = CbIdle
    /\ UNCHANGED <<scDone, scGets>>

\* What the scanner leaves alone.
scanRest ==
    <<nodeVars, findVars, filterVars, policyVars, putSignedVars, ctorVars,
      registerVars, signVars, cryptVars, overlapVars, lcState, lcInit,
      lcDeinit>>

\* What the DHT thread of the scanner leaves alone.
notScanVars == <<scanRest, gnutlsRefs>>

\* The steps of the DHT thread.
DhtThread ==
    /\ \/ \E depth \in Depths, empty \in BOOLEAN,
             commonBits \in 0..MaxCommonBits :
             GetDone(depth, empty, commonBits)
       \/ CallbackLoop
       \/ CallbackDecrement
       \/ CallbackNotify
    /\ UNCHANGED notScanVars

\* The steps of main.
MainThread ==
    /\ \/ MainStep
       \/ MainCheck
       \/ MainBlock
       \/ MainJoin
       \/ MainDeinit
    /\ UNCHANGED scanRest

ScanNext ==
    \/ MainThread
    \/ SpuriousWakeup /\ UNCHANGED scanRest
    \/ DhtThread

SpecScan == ScanInit /\ [][ScanNext]_vars

\* Both threads keep running and every get issued completes; a wake-up
\* without notification is never owed.
SpecScanFair ==
    /\ SpecScan
    /\ WF_vars(MainThread)
    /\ WF_vars(DhtThread)

\* ------------------------------------------------------------- claims
\* The invocations of cb that passed a certificate, in this call.
CertCalls == {i \in 1..Len(cbLog) : cbLog[i] # NoCert}

\* C1: for a findCertificate call that went to the DHT, whatever batches
\* its get has been delivered, cb has been invoked with a certificate at
\* most once.
C1_CertCallbackAtMostOnce ==
    pc \in {"get", "done"} => Cardinality(CertCalls) <= 1

\* Valid certificates arrived in at least two batches, the get is still
\* open and cb was invoked with a certificate once.
C1_Witness ==
    /\ pc = "get"
    /\ caller = "user"
    /\ nBatches >= 2
    /\ nValid >= 3
    /\ Cardinality(CertCalls) = 1

\* C2: once the get of a findCertificate call has completed, cb has been
\* invoked exactly once, with None if and only if no batch delivered a
\* valid certificate for node.
C2_NoneIffNoValidCertificate ==
    (pc = "done" /\ cbSet) =>
        /\ Len(cbLog) = 1
        /\ (cbLog[1] = NoCert) <=> (nValid = 0)

\* The get completed after a batch without any valid certificate, and cb
\* was invoked with None.
C2_Witness ==
    /\ pc = "done"
    /\ caller = "user"
    /\ cbSet
    /\ nBatches >= 1
    /\ nValid = 0
    /\ cbLog = <<NoCert>>

\* C6: when A's putEncrypted(h, B's id, v) resolved B's certificate, the
\* value A put passes B's receive filter: B's get delivers exactly one
\* value, with v's data, and the recipient encrypt wrote is B's getId().
C6_RecipientReceivesPlaintext ==
    (/\ rxKey # NoKey
     /\ caller = "putEncrypted"
     /\ fcNode = PkId(rxKey)
     /\ cbLog # <<>>
     /\ cbLog[1].pk = rxKey) =>
        /\ Len(puts) = 1
        /\ Len(rxCalls) = 1
        /\ Len(rxCalls[1]) = 1
        /\ rxCalls[1][1].data = peOrig.data
        /\ peVal.recipient = getIdOf(rxKey)

\* B, another node than A, whose certificate A found on the DHT, received
\* the value.
C6_Witness ==
    /\ rxKey # NoKey
    /\ rxKey # key_
    /\ caller = "putEncrypted"
    /\ fcNode = PkId(rxKey)
    /\ found
    /\ cbLog # <<>>
    /\ cbLog[1].pk = rxKey
    /\ Len(rxCalls) = 1
    /\ rxCalls[1][1].data = 2

\* C10: in putEncrypted, when findCertificate yields no certificate or
\* encrypt raises, done(false) has been invoked exactly once and no put is
\* issued; a put is issued only with a certificate and a value that
\* encrypt accepts.
C10_PutEncryptedFailure ==
    caller = "putEncrypted" =>
        /\ (cbLog # <<>> /\ (cbLog[1] = NoCert \/ peOrig.encrypted)) =>
               (doneLog = <<FALSE>> /\ puts = <<>>)
        /\ puts # <<>> =>
               (/\ Len(puts) = 1
                /\ cbLog # <<>>
                /\ cbLog[1] # NoCert
                /\ ~peOrig.encrypted
                /\ doneLog = <<>>)

\* A certificate was found on the DHT for a value that is already
\* encrypted: encrypt raised, done(false) was invoked, nothing was put.
C10_Witness ==
    /\ caller = "putEncrypted"
    /\ peOrig.encrypted
    /\ found
    /\ pc = "done"
    /\ cbLog # <<>>
    /\ cbLog[1] # NoCert
    /\ doneLog = <<FALSE>>
    /\ puts = <<>>

\* Every value the user's callback was given for fBatch, in one sequence.
RECURSIVE Flatten(_)
Flatten(calls) ==
    IF calls = <<>> THEN <<>> ELSE Head(calls) \o Flatten(Tail(calls))

Delivered == Flatten(fCalls)

\* d is what the claim allows the filter to deliver for the input v: v
\* itself when it is neither signed nor encrypted, v itself when it is
\* signed, not encrypted and its signature verifies, or the decryption of
\* v when its recipient is this node's id and its signature verifies.
AllowedDelivery(v, d) ==
    \/ /\ ~v.signed
       /\ ~v.encrypted
       /\ d = v
    \/ /\ v.signed
       /\ ~v.encrypted
       /\ d = v
       /\ checkSignature(v.owner, getToSign(v), v.signature)
    \/ /\ v.encrypted
       /\ key_ # NoKey
       /\ v.cypher.to = key_
       /\ v.cypher.body # GarbageBody
       /\ d = unpackBody(v.id, v.cypher.body)
       /\ d.recipient = getId
       /\ checkSignature(d.owner, getToSign(d), d.signature)

\* C4: every value handed to the user callback of get/listen is an
\* unsigned unencrypted input, a signed input whose signature verifies, or
\* the decryption of an input addressed to this node whose inner signature
\* verifies; it passes the user filter; no delivered value flagged signed
\* has a failing signature.
C4_OnlyVerifiedValuesDelivered ==
    \A j \in 1..Len(Delivered) :
        /\ \E i \in 1..Len(fBatch) : AllowedDelivery(fBatch[i], Delivered[j])
        /\ PassFilter(fFilter, Delivered[j])
        /\ Delivered[j].signed =>
               checkSignature(Delivered[j].owner, getToSign(Delivered[j]),
                              Delivered[j].signature)

\* A batch of a signed value whose data was changed after signing and an
\* encrypted value for this node: only the decrypted value was delivered.
C4_Witness ==
    /\ Len(fBatch) = 2
    /\ fBatch[1].signed
    /\ ~checkSignature(fBatch[1].owner, getToSign(fBatch[1]),
                       fBatch[1].signature)
    /\ fBatch[2].encrypted
    /\ Len(Delivered) = 1
    /\ Delivered[1].recipient = getId
    /\ Delivered[1].data = 2

\* v is encrypted to another recipient than the node whose key is key: with
\* another public key, or with a plaintext whose recipient is not the id
\* of that node.
EncryptedToOther(key, v) ==
    /\ v.encrypted
    /\ \/ v.cypher.to # key
       \/ /\ v.cypher.body # GarbageBody
          /\ v.cypher.body.recipient # getIdOf(key)

\* The batch without the values encrypted to another recipient.
RECURSIVE WithoutOthers(_, _)
WithoutOthers(key, values) ==
    IF values = <<>>
    THEN <<>>
    ELSE (IF EncryptedToOther(key, Head(values))
          THEN <<>>
          ELSE <<Head(values)>>) \o WithoutOthers(key, Tail(values))

\* C5: a value encrypted to another recipient is never delivered, and what
\* the user callback observes (its calls, and what is returned to the DHT)
\* is what it would observe with those values absent from the batch.
C5_EncryptedToOtherInvisible ==
    LET rest == WithoutOthers(key_, fBatch)
        r == getCallbackFilter(key_, fFilter, fCbSet, fUret, rest)
    IN  /\ fCalls = r.calls
        /\ fRet = r.ret
        /\ Len(Delivered) <= Len(rest)

\* On a node with a private key, a batch held a value encrypted with this
\* node's key but addressed to another recipient, then a value this node
\* accepts: only the latter was delivered.
C5_Witness ==
    /\ key_ # NoKey
    /\ Len(fBatch) = 2
    /\ fBatch[1].encrypted
    /\ fBatch[1].cypher.to = key_
    /\ EncryptedToOther(key_, fBatch[1])
    /\ ~EncryptedToOther(key_, fBatch[2])
    /\ Len(Delivered) = 1

\* C3: when the stored value is signed and not encrypted, editPolicy
\* accepts old -> new only if new.owner = old.owner, new's signature
\* verifies over new.getToSign(), and new.seq > old.seq or the seqs are
\* equal and the two getToSign() are identical.
C3_EditAcceptedOnlyByOwner ==
    (pc = "decided" /\ eOld.signed /\ ~eOld.encrypted /\ eResult) =>
        /\ eNew.owner = eOld.owner
        /\ checkSignature(eNew.owner, getToSign(eNew), eNew.signature)
        /\ \/ eNew.seq > eOld.seq
           \/ /\ eNew.seq = eOld.seq
              /\ getToSign(eNew) = getToSign(eOld)

\* The stored value is owned and signed by key 1; the new one names key 2
\* as its owner, is signed by key 1 and has a higher seq; editPolicy
\* accepted it.
C3_OwnerChangedAccepted ==
    /\ pc = "decided"
    /\ eOld = SignedBy(1, 1, 0, 1)
    /\ eNew = SignedBy(2, 1, 1, 1)
    /\ eResult

\* How often step e is in putSigned's log.
Count(e) == Cardinality({i \in DOMAIN psLog : psLog[i] = e})

\* Every step a of putSigned's log is before every step b.
AllBefore(a, b) ==
    \A i \in DOMAIN psLog, j \in DOMAIN psLog :
        psLog[i] = a /\ psLog[j] = b => i < j

\* Step e of putSigned's log only comes after the get has completed.
OnlyAfterDone(e) ==
    \A i \in DOMAIN psLog :
        psLog[i] = e => \E j \in 1..(i - 1) : psLog[j] = "done"

\* sign and put come after the completion of the get, and no seq
\* adjustment comes after sign.
PutSignedOrder ==
    /\ OnlyAfterDone("sign")
    /\ OnlyAfterDone("put")
    /\ AllBefore("bump", "sign")
    /\ AllBefore("sign", "put")
    /\ Count("done") <= 1
    /\ Len(psPuts) = Count("put")

\* C7 as stated: for every putSigned call, sign(value) and the put of
\* value are issued only after the pre-announcement get has completed,
\* every seq adjustment is before the signature, and once the done
\* callback of the get has run both have been issued exactly once.
C7_SignAndPutExactlyOnce ==
    /\ PutSignedOrder
    /\ pc = "psDone" => Count("sign") = 1 /\ Count("put") = 1

\* C7, amended: for every putSigned call, sign(value) and the put of
\* value are issued only after the pre-announcement get has completed,
\* each at most once, every seq adjustment is before the signature; once
\* the get has completed sign has been issued exactly once, and the put
\* exactly once if the value is not flagged encrypted and the node holds a
\* private key, and not at all otherwise.
C7_SignThenPutAfterGet ==
    /\ PutSignedOrder
    /\ Count("sign") <= 1
    /\ Count("put") <= 1
    /\ pc \in {"psDone", "crashed"} =>
          /\ Count("sign") = 1
          /\ Count("put") = 1 <=> (~psOrig.encrypted /\ key_ # NoKey)

\* A get that delivered batches and adjusted the seq has completed, and
\* the value was signed and put.
C7_Witness ==
    /\ pc = "psDone"
    /\ psBatches = MaxBatches
    /\ psLog = <<"get", "bump", "done", "sign", "put">>
    /\ Len(psPuts) = 1
    /\ psPuts[1].signed
    /\ psPuts[1].seq > psOrig.seq

\* The done callback of the get has run on a value flagged encrypted:
\* sign was called and no put was issued.
C7_EncryptedNotPut ==
    /\ pc = "psDone"
    /\ psOrig.encrypted
    /\ psLog = <<"get", "done", "sign">>
    /\ psPuts = <<>>

\* The seq of val after the getPut step of putSigned.
SeqAfterGetPut ==
    IF psPrior # NoValue /\ psOrig.seq <= psPrior.seq
    THEN psPrior.seq + 1
    ELSE psOrig.seq

\* C8: during putSigned, after every batch of the pre-announcement get,
\* value.seq is what it was before the get, or one more than the highest
\* seq of the own-key signed values the get returned if that is higher; so
\* it is strictly greater than the seq of every own-key value the get
\* returned, and so is the seq of the value signed and put.
C8_SeqAboveOwnValuesSeen ==
    /\ pc \in {"psGet", "psDone", "crashed"} =>
          /\ psVal.seq = Max(SeqAfterGetPut, psMaxOwn + 1)
          /\ psVal.seq > psMaxOwn
    /\ \A i \in DOMAIN psPuts : psPuts[i].seq > psMaxOwn

\* The get returned, over two batches, an own-key value whose seq was not
\* below value.seq, and the value was put.
C8_Witness ==
    /\ pc = "psDone"
    /\ psBatches = MaxBatches
    /\ psMaxOwn >= SeqAfterGetPut
    /\ psMaxOwn = MaxSeq
    /\ Len(psPuts) = 1
    /\ psPuts[1].seq = MaxSeq + 1

\* C9: in putSigned, when getPut reports a prior announcement p and
\* value.seq <= p.seq, value.seq is p.seq + 1 when the get is issued, and
\* otherwise it is unchanged; the value put has a seq strictly greater
\* than p.seq.
C9_SeqAbovePriorAnnouncement ==
    /\ pc = "psGet" /\ psBatches = 0 =>
          /\ psPrior # NoValue /\ psOrig.seq <= psPrior.seq
                => psVal.seq = psPrior.seq + 1
          /\ psPrior = NoValue \/ psOrig.seq > psPrior.seq
                => psVal.seq = psOrig.seq
    /\ \A i \in DOMAIN psPuts :
          psPrior # NoValue => psPuts[i].seq > psPrior.seq

\* getPut reported an announcement with the seq of the value, the get
\* returned no own-key value, and the value was put.
C9_Witness ==
    /\ pc = "psDone"
    /\ psPrior # NoValue
    /\ psOrig.seq = psPrior.seq
    /\ psMaxOwn = -1
    /\ Len(psPuts) = 1
    /\ psPuts[1].seq = psPrior.seq + 1

\* The identity the node was constructed with is a certificate and a
\* private key whose public-key ids differ.
IdentityMismatch ==
    /\ key_ # NoKey
    /\ certificate_ # NoCert
    /\ CertId(certificate_) # PkId(key_)

\* C11: constructing a SecureDht with an identity whose private key's
\* public-key id differs from its certificate's public-key id fails,
\* whatever sockets are passed, and no certificate is put.
C11_MismatchedIdentityFails ==
    (pc # "unbuilt" /\ IdentityMismatch) =>
        /\ pc = "ctorThrew"
        /\ Puts(ctorLog) = <<>>

\* A SecureDht was constructed with both sockets disabled and the private
\* key 1 with the certificate of key 2.
C11_MismatchConstructed ==
    /\ pc = "constructed"
    /\ ctorArgs.s < 0
    /\ ctorArgs.s6 < 0
    /\ key_ = 1
    /\ certificate_ = [pk |-> 2, ser |-> 1]

\* The constructor has returned.
Constructed == pc \in {"constructed", "announced", "notAnnounced"}

\* C16: a construction with at least one enabled socket that returns has
\* registered the value types, the last of them CERTIFICATE_TYPE as an
\* insecure type; with a certificate it has then, after all
\* registrations, issued exactly one put, of its certificate at the
\* certificate's public-key id with type CERTIFICATE_TYPE and value id 1;
\* without a certificate it has issued no put.
C16_RegistersThenPutsCertificate ==
    (Constructed /\ (ctorArgs.s >= 0 \/ ctorArgs.s6 >= 0)) =>
        LET regs == Registered(ctorLog)
        IN  /\ regs # <<>>
            /\ regs[Len(regs)] = [op |-> "register",
                                   type |-> CERTIFICATE_TYPE,
                                   secure |-> FALSE]
            /\ \A i \in DOMAIN regs :
                  regs[i].type = CERTIFICATE_TYPE => ~regs[i].secure
            /\ certificate_ = NoCert => Puts(ctorLog) = <<>>
            /\ certificate_ # NoCert =>
                  /\ Puts(ctorLog) =
                        <<[op |-> "put", hash |-> CertId(certificate_),
                           type |-> CERTIFICATE_TYPE, id |-> 1,
                           data |-> certificate_]>>
                  /\ ctorLog[Len(ctorLog)].op = "put"

\* A node with an IPv4 socket only, a key and its certificate was
\* constructed and has put the certificate.
C16_Witness ==
    /\ pc = "constructed"
    /\ ctorArgs.s >= 0
    /\ ctorArgs.s6 < 0
    /\ key_ = 1
    /\ certificate_ = [pk |-> 1, ser |-> 1]
    /\ Len(Puts(ctorLog)) = 1
    /\ Len(Registered(ctorLog)) = Len(ctorLog) - 1

\* C12: the storePolicy of a secured type rejects a value that is signed
\* and not encrypted and whose signature does not verify against its
\* owner over getToSign(), without consulting the inner storePolicy; for
\* every other value it consults the inner storePolicy and answers what
\* that answers; the signature of an encrypted value is not checked.
C12_StorePolicy ==
    pc = "storeDecided" =>
        IF /\ eNew.signed
           /\ ~eNew.encrypted
           /\ ~checkSignature(eNew.owner, getToSign(eNew), eNew.signature)
        THEN ~eResult /\ ~eTrace.consulted
        ELSE /\ eResult = eInner
             /\ eTrace.consulted
             /\ eNew.encrypted => ~eTrace.checked

\* The inner storePolicy accepts, and the storePolicy has rejected a value
\* flagged signed whose signature was made by another key than its owner.
C12_Witness ==
    /\ pc = "storeDecided"
    /\ eNew = SignedBy(1, 2, 0, 1)
    /\ eInner
    /\ ~eResult
    /\ eTrace = [checked |-> TRUE, consulted |-> FALSE]

\* The inner storePolicy rejects a value flagged encrypted and signed
\* whose signature does not verify, and so does the storePolicy, without
\* a signature check.
C12_EncryptedNotChecked ==
    /\ pc = "storeDecided"
    /\ eNew = [SignedBy(1, 2, 0, 1) EXCEPT !.encrypted = TRUE]
    /\ ~eInner
    /\ ~eResult
    /\ eTrace = [checked |-> FALSE, consulted |-> TRUE]

\* C17: the editPolicy of a secured type accepts an edit only if the
\* inner editPolicy of the wrapped type accepts it.
C17_EditDelegatesToInner ==
    (pc = "decided" /\ eResult) => eInner

\* The inner editPolicy rejects the edit of a value signed by key 1 to
\* one signed by key 1 with a higher seq, and the editPolicy has accepted
\* it.
C17_InnerRejectedAccepted ==
    /\ pc = "decided"
    /\ eOld = SignedBy(1, 1, 0, 1)
    /\ eNew = SignedBy(1, 1, 1, 2)
    /\ ~eInner
    /\ eResult

\* C13: every entry of the certificate cache maps a key k to a
\* certificate whose public-key id is k, after any registerCertificate
\* and findCertificate calls.
C13_CacheEntriesMatchTheirKey ==
    \A k \in DOMAIN nodesCertificates_ : CertId(nodesCertificates_[k]) = k

\* findCertificate for the id of key 1 took the certificate of key 2
\* from the local store hook, and the cache holds it under the id of key 1.
C13_HookResultCached ==
    /\ pc = "returned"
    /\ caller = "user"
    /\ fcNode = PkId(1)
    /\ fcHook = Called(<<[pk |-> 2, ser |-> 1]>>)
    /\ PkId(1) \in DOMAIN nodesCertificates_
    /\ nodesCertificates_[PkId(1)] = [pk |-> 2, ser |-> 1]

\* One step is a findCertificate(node, cb) call of the application.
IsFindCall == pc = "idle" /\ pc' # "idle" /\ caller' = "user"

\* C19 as stated: findCertificate(node, cb) resolves in a fixed order.
\* When getCertificate(node) gives a certificate, cb is invoked
\* synchronously with it, the local store hook is not called and no get
\* is issued. Otherwise, when the hook is set and returns a non-empty
\* list, its first result is cached under node and passed to cb, and no
\* get is issued. A get is issued in the remaining case, and only then.
C19_FirstResultCached ==
    [][IsFindCall =>
        LET node == fcNode'
            hit == getCertificate(node)
        IN  IF hit # NoCert
            THEN /\ pc' = "returned"
                 /\ fcHook' = NotCalled
                 /\ cbLog' = IF cbSet' THEN <<hit>> ELSE <<>>
                 /\ UNCHANGED nodesCertificates_
            ELSE IF localQueryMethod_ /\ fcHook'.res # <<>>
            THEN /\ pc' = "returned"
                 /\ fcHook'.called
                 /\ cbLog' = IF cbSet' THEN <<fcHook'.res[1]>> ELSE <<>>
                 /\ node \in DOMAIN nodesCertificates_'
                 /\ nodesCertificates_'[node] = fcHook'.res[1]
            ELSE /\ pc' = "get"
                 /\ cbLog' = <<>>
                 /\ fcHook' = IF localQueryMethod_ THEN Called(<<>>) ELSE NotCalled
                 /\ UNCHANGED nodesCertificates_]_vars

\* C19, amended: findCertificate(node, cb) resolves in a fixed order.
\* When getCertificate(node) gives a certificate (a cache entry, or the
\* node's own certificate for its own id), cb is invoked synchronously
\* with it, the local store hook is not called, no get is issued and the
\* cache is unchanged. Otherwise, when the hook is set and returns a
\* non-empty list, its first result is passed to cb, it is cached under
\* node unless the cache already has an entry for node, which is then
\* kept, and no get is issued. A get is issued in the remaining case, and
\* only then.
C19_ResolutionOrder ==
    [][IsFindCall =>
        LET node == fcNode'
            hit == getCertificate(node)
        IN  IF hit # NoCert
            THEN /\ pc' = "returned"
                 /\ fcHook' = NotCalled
                 /\ cbLog' = IF cbSet' THEN <<hit>> ELSE <<>>
                 /\ UNCHANGED nodesCertificates_
            ELSE IF localQueryMethod_ /\ fcHook'.res # <<>>
            THEN /\ pc' = "returned"
                 /\ fcHook'.called
                 /\ cbLog' = IF cbSet' THEN <<fcHook'.res[1]>> ELSE <<>>
                 /\ DOMAIN nodesCertificates_' =
                       DOMAIN nodesCertificates_ \cup {node}
                 /\ \A k \in DOMAIN nodesCertificates_ :
                       nodesCertificates_'[k] = nodesCertificates_[k]
                 /\ node \notin DOMAIN nodesCertificates_ =>
                       nodesCertificates_'[node] = fcHook'.res[1]
            ELSE /\ pc' = "get"
                 /\ cbLog' = <<>>
                 /\ fcHook' = IF localQueryMethod_ THEN Called(<<>>) ELSE NotCalled
                 /\ UNCHANGED nodesCertificates_]_vars

\* A findCertificate call with a callback for a key that is not in the
\* cache, which holds another one, got a certificate from the local store
\* hook: it is cached and was passed to cb, and no get was issued.
C19_Witness ==
    /\ pc = "returned"
    /\ caller = "user"
    /\ fcHook = Called(<<[pk |-> 1, ser |-> 2]>>)
    /\ fcNode = PkId(1)
    /\ cbLog = fcHook.res
    /\ DOMAIN nodesCertificates_ = {PkId(1), PkId(2)}
    /\ nodesCertificates_[PkId(1)] = [pk |-> 1, ser |-> 2]

\* C14: registerCertificate(node, blob) returns none and leaves the cache
\* as it was when blob does not parse or parses to a certificate whose
\* public-key id is not node; otherwise the entry of the cache for node
\* becomes that certificate, every other entry is as before, and the
\* certificate stored is returned.
C14_RegisterCertificate ==
    IF rcData = NoCert \/ CertId(rcData) # rcNode
    THEN /\ rcRet = NoCert
         /\ nodesCertificates_ = rcPrev
    ELSE /\ rcRet = rcData
         /\ DOMAIN nodesCertificates_ = DOMAIN rcPrev \cup {rcNode}
         /\ nodesCertificates_[rcNode] = rcData
         /\ \A k \in DOMAIN rcPrev \ {rcNode} :
               nodesCertificates_[k] = rcPrev[k]

\* The cache held certificates for both keys, and registerCertificate has
\* replaced the one of key 1 by another certificate of key 1.
C14_Witness ==
    /\ DOMAIN rcPrev = {PkId(1), PkId(2)}
    /\ rcPrev[PkId(1)] = [pk |-> 1, ser |-> 1]
    /\ rcNode = PkId(1)
    /\ rcData = [pk |-> 1, ser |-> 2]
    /\ rcRet = rcData
    /\ nodesCertificates_[PkId(1)] = rcData
    /\ nodesCertificates_[PkId(2)] = rcPrev[PkId(2)]

\* C20: sign(value) on a node that holds a private key: on a value flagged
\* encrypted it throws and leaves the value as it was; otherwise it
\* returns, owner is the node's public key, the flags are signed, not
\* encrypted, has_recipient as before, the signature is the private key's
\* signature over getToSign(), id, type, seq, recipient and data are as
\* before, and owner.checkSignature(getToSign(), signature) holds.
C20_Sign ==
    /\ (pc \in {"signed", "signThrew", "crashed"} /\ sgIn.encrypted) =>
          pc = "signThrew"
    /\ pc = "signThrew" => sgIn.encrypted /\ sgOut = sgIn
    /\ (pc \in {"signed", "signThrew", "crashed"}
          /\ ~sgIn.encrypted /\ key_ # NoKey) => pc = "signed"
    /\ pc = "signed" =>
          /\ sgOut.owner = key_
          /\ sgOut.signed
          /\ ~sgOut.encrypted
          /\ sgOut.hasRecip = sgIn.hasRecip
          /\ sgOut.signature = PrivateKeySign(key_, getToSign(sgOut))
          /\ sgOut.id = sgIn.id
          /\ sgOut.type = sgIn.type
          /\ sgOut.seq = sgIn.seq
          /\ sgOut.recipient = sgIn.recipient
          /\ sgOut.data = sgIn.data
          /\ checkSignature(sgOut.owner, getToSign(sgOut), sgOut.signature)

\* The node with key 2 has signed a value with a recipient that key 1 had
\* signed before.
C20_Witness ==
    /\ pc = "signed"
    /\ key_ = 2
    /\ sgIn = sign(1, SeqValue(1, 1, MaxSeq)).val
    /\ sgOut.owner = 2
    /\ sgOut.signature # sgIn.signature

\* sign has thrown on a value flagged encrypted.
C20_EncryptedThrows ==
    /\ pc = "signThrew"
    /\ key_ = 1
    /\ sgIn = encrypt(1, PlainValue(1, 1), 2).nv
    /\ sgOut = sgIn

\* What the filter hands on for the input v when it does: v itself, or
\* the value unpacked from its cypher.
SurvivorOf(v) == IF v.encrypted THEN unpackBody(v.id, v.cypher.body) ELSE v

\* The input v survives the filter of this get/listen.
Survives(v) ==
    AllowedDelivery(v, SurvivorOf(v)) /\ PassFilter(fFilter, SurvivorOf(v))

\* The indices of the batch whose values survive.
SurvivorIndices == {i \in 1..Len(fBatch) : Survives(fBatch[i])}

\* The j-th of them.
NthSurvivor(j) ==
    CHOOSE i \in SurvivorIndices :
        Cardinality({k \in SurvivorIndices : k < i}) = j - 1

\* C15: for a batch delivered to the wrapped callback: when no value
\* survives the filter the user callback is not called and the wrapper
\* returns true; otherwise the user callback is called exactly once, with
\* all survivors in their order of arrival, and the wrapper returns what
\* the user callback returned. (Without a user callback nothing is called
\* and the wrapper returns true.)
C15_OneCallPerBatch ==
    pc = "delivered" =>
        IF SurvivorIndices = {} \/ ~fCbSet
        THEN fCalls = <<>> /\ fRet = TRUE
        ELSE /\ Len(fCalls) = 1
             /\ Len(fCalls[1]) = Cardinality(SurvivorIndices)
             /\ \A j \in 1..Len(fCalls[1]) :
                   fCalls[1][j] = SurvivorOf(fBatch[NthSurvivor(j)])
             /\ fRet = fUret

\* Both values of a batch survived, the second after decryption, the user
\* callback got them in one call, in that order, and returned false, and
\* so did the wrapper.
C15_Witness ==
    /\ pc = "delivered"
    /\ Len(fBatch) = 2
    /\ ~fBatch[1].encrypted
    /\ fBatch[2].encrypted
    /\ fBatch[2].cypher.body # GarbageBody
    /\ fCalls = <<<<fBatch[1], SurvivorOf(fBatch[2])>>>>
    /\ fBatch[1] # SurvivorOf(fBatch[2])
    /\ ~fUret
    /\ ~fRet

\* On this node, processing v fails: its decryption or the parsing of its
\* plaintext raises an error, or its signature, or that of its plaintext,
\* does not verify.
Failing(v) ==
    IF v.encrypted
    THEN /\ key_ # NoKey
         /\ \/ v.cypher.to # key_
            \/ v.cypher.body = GarbageBody
            \/ ~checkSignature(SurvivorOf(v).owner,
                               getToSign(SurvivorOf(v)),
                               SurvivorOf(v).signature)
    ELSE /\ v.signed
         /\ ~checkSignature(v.owner, getToSign(v), v.signature)

\* The batch without the values whose processing fails.
RECURSIVE WithoutFailing(_)
WithoutFailing(values) ==
    IF values = <<>>
    THEN <<>>
    ELSE (IF Failing(Head(values)) THEN <<>> ELSE <<Head(values)>>)
           \o WithoutFailing(Tail(values))

\* C18: a value whose decryption or parsing raises an error, or whose
\* signature fails, is dropped: the wrapper returns normally, the calls
\* to the user callback and what is returned to the DHT are those of the
\* batch without such values, and every other value of the batch that
\* survives the filter is delivered in the batch's call.
C18_FailuresDroppedSiblingsKept ==
    pc = "delivered" =>
        LET r == getCallbackFilter(key_, fFilter, fCbSet, fUret,
                                   WithoutFailing(fBatch))
        IN  /\ fCalls = r.calls
            /\ fRet = r.ret
            /\ fRet \in BOOLEAN
            /\ \A i \in 1..Len(fBatch) : Failing(fBatch[i]) =>
                  \A j \in 1..Len(Delivered) :
                      AllowedDelivery(fBatch[i], Delivered[j]) =>
                          \E k \in 1..Len(fBatch) :
                              /\ ~Failing(fBatch[k])
                              /\ Delivered[j] = SurvivorOf(fBatch[k])
            /\ fCbSet =>
                  \A i \in 1..Len(fBatch) :
                      (~Failing(fBatch[i]) /\ Survives(fBatch[i])) =>
                          \E j \in 1..Len(Delivered) :
                              Delivered[j] = SurvivorOf(fBatch[i])

\* A batch held a value whose cypher does not parse and then a signed
\* value that verifies: the user callback got the second one.
C18_Witness ==
    /\ pc = "delivered"
    /\ key_ # NoKey
    /\ Len(fBatch) = 2
    /\ fBatch[1].encrypted
    /\ fBatch[1].cypher.to = key_
    /\ fBatch[1].cypher.body = GarbageBody
    /\ fBatch[2].signed
    /\ fCalls = <<<<fBatch[2]>>>>
    /\ fRet = fUret

\* C21: an unencrypted value that a node holding a private key encrypts to
\* the public key of r comes back with the same id and flagged encrypted,
\* and the node holding r's private key decrypts it to a value with the
\* same id and data, r's public key id as recipient, the sender's public
\* key as owner and a signature that verifies over its getToSign();
\* encrypt throws on a value already encrypted and decrypt throws on a
\* value not encrypted.
C21_EncryptDecryptRoundTrip ==
    /\ pc \in {"encrypted", "encryptThrew", "decrypted", "decryptThrew",
               "decryptCrashed"}
         => /\ crIn.encrypted <=> pc = "encryptThrew"
            /\ ~crIn.encrypted
                 => /\ crNv.id = crIn.id
                    /\ crNv.encrypted
    /\ pc \in {"decrypted", "decryptThrew"} /\ crKey = crTo
         => /\ pc = "decrypted"
            /\ crOut.id = crIn.id
            /\ crOut.data = crIn.data
            /\ crOut.hasRecip
            /\ crOut.recipient = PkId(crTo)
            /\ crOut.owner = key_
            /\ crOut.signed
            /\ checkSignature(crOut.owner, getToSign(crOut),
                              crOut.signature)
    /\ pc \in {"inputDecrypted", "inputDecryptThrew", "inputDecryptCrashed"}
         /\ ~crIn.encrypted
         => pc = "inputDecryptThrew"

\* A signed value carrying another recipient went through encrypt and the
\* decrypt of the recipient.
C21_Witness ==
    /\ pc = "decrypted"
    /\ crKey = crTo
    /\ key_ # crTo
    /\ crIn.hasRecip
    /\ crIn.recipient # PkId(crTo)
    /\ crOut.data = crIn.data

\* encrypt threw on an encrypted value.
C21_EncryptThrew == pc = "encryptThrew" /\ crIn.encrypted

\* decrypt threw on a value that is not encrypted.
C21_DecryptThrew == pc = "inputDecryptThrew" /\ ~crIn.encrypted

\* decrypt on a node without a private key read through the null key_.
C21_DecryptWithoutKey ==
    /\ pc \in {"decryptCrashed", "inputDecryptCrashed"}
    /\ crKey = NoKey

\* The objects of a set that ran gnutls_global_init, gnutls_global_deinit.
InitsOf(S) == Cardinality({i \in S : lcInit[i]})
DeinitsOf(S) == Cardinality({i \in S : lcDeinit[i]})

\* C22: on a GnuTLS that needs explicit initialisation, over any sequence
\* of constructions and destructions, an object that is destroyed runs
\* gnutls_global_deinit only if its constructor ran gnutls_global_init,
\* every init is matched by a deinit once no object is left, and the
\* library is not torn down while an object that initialised it lives.
C22_InitDeinitBalanced ==
    /\ \A i \in Instances : lcDeinit[i] => lcInit[i]
    /\ (\A i \in Instances : lcState[i] \in {"destroyed", "ctorThrew"})
         => InitsOf(Instances) = DeinitsOf(Instances)
    /\ (\E i \in Instances : lcState[i] = "live" /\ lcInit[i])
         => gnutlsRefs > 0

\* An object built with both sockets disabled was destroyed: it ran
\* deinit without init, and the library is down under a live object.
C22_DeinitWithoutInit ==
    \E i, j \in Instances :
        /\ lcState[i] = "destroyed"
        /\ lcDeinit[i]
        /\ ~lcInit[i]
        /\ lcState[j] = "live"
        /\ lcInit[j]
        /\ gnutlsRefs = 0

\* A constructor that threw on the identity mismatch left its init
\* without a deinit, all objects being gone.
C22_InitWithoutDeinit ==
    /\ \A i \in Instances : lcState[i] \in {"destroyed", "ctorThrew"}
    /\ \E i \in Instances : lcState[i] = "ctorThrew" /\ lcInit[i]
    /\ \A i \in Instances : lcDeinit[i] => lcInit[i]
    /\ InitsOf(Instances) > DeinitsOf(Instances)

\* C23: when the second of two putSigned calls for the same hash and
\* value id, with different value objects, is issued before the get of
\* the first has completed, the two values that are signed and put carry
\* different seq numbers, the later put having the greater one.
C23_OverlappingPutsIncreaseSeq ==
    ovOverlap /\ Len(ovPuts) = 2
        => ovPuts[1].val.seq < ovPuts[2].val.seq

\* Two overlapping calls put two different values with the same seq.
C23_SameSeqPutTwice ==
    /\ ovOverlap
    /\ Len(ovPuts) = 2
    /\ ovPuts[1].call # ovPuts[2].call
    /\ ovPuts[1].val.data # ovPuts[2].val.data
    /\ ovPuts[1].val.seq = ovPuts[2].val.seq

\* Issued after the first call has put its value, the second call puts
\* a greater seq.
C23_SequentialPutsIncreaseSeq ==
    ~ovOverlap /\ Len(ovPuts) = 2
        => ovPuts[1].val.seq < ovPuts[2].val.seq

\* The gets issued and not completed, counted.
RECURSIVE GetsUpTo(_)
GetsUpTo(d) == IF d < 0 THEN 0 ELSE scGets[d] + GetsUpTo(d - 1)

\* The done callback is before its done--.
BeforeDecrement == scCb.at \in {"loop", "decrement"}

\* done counts the gets not completed and the callback that has not yet
\* decremented it, so it is zero only when no get is outstanding.
C24_ZeroOnlyWhenNoGetOutstanding ==
    /\ scDone = GetsUpTo(MaxBucketDepth)
                    + (IF BeforeDecrement THEN 1 ELSE 0)
    /\ scDone = 0 => Outstanding = {}

\* C24: the scanner's counter is zero only when no get is outstanding,
\* and if every issued get completes, main leaves its wait on the
\* condition variable and reports the scan as ended, under every
\* interleaving of the callbacks with main's predicate check and wait.
C24_ScanEnds ==
    /\ [](scDone = 0 => Outstanding = {})
    /\ <>(pc = "scanEnded")

\* The notification was lost: main is blocked on cv, the counter is zero,
\* no get is outstanding and the DHT thread has nothing left to do.
C24_LostWakeup ==
    /\ pc = "scanWaiting"
    /\ scDone = 0
    /\ Outstanding = {}
    /\ scCb = CbIdle

\* When the scan ends, main undoes its gnutls_global_init.
C24_ExitDeinit == pc = "scanExited" /\ gnutlsRefs = 0

\* The library is up until main has joined the DHT thread, and the DHT
\* thread is in no callback from the join on.
C24_DeinitAfterJoin ==
    /\ pc # "scanExited" => gnutlsRefs = 1
    /\ pc \in {"scanJoined", "scanExited"}
         => scCb = CbIdle /\ Outstanding = {} /\ scDone = 0

====
